---- MODULE Spec2Model ----
(***************************************************************************)
(* Model of the sentiment analysis engine of the sentiment-monitor skill   *)
(* (nanobot/skills/sentiment-monitor/scripts/analyze_sentiment.py).        *)
(*                                                                         *)
(* The engine is a set of pure functions over texts, keyword lists and     *)
(* lists of content items.  Each function is an operator that computes     *)
(* what the Python computes; each specification draws the inputs of one    *)
(* function from bounded sets in its Init and applies the function in one  *)
(* action.                                                                 *)
(*                                                                         *)
(* Representation.                                                         *)
(*  - A text (str) is a sequence of characters; `kw in text` is substring  *)
(*    containment (Contains).                                              *)
(*  - A float that the code computes as a quotient of two small integers   *)
(*    is the reduced fraction <<num, den>> of the quotient: the division   *)
(*    is correctly rounded, so two quotients are the same float exactly    *)
(*    when they are the same fraction (0.6 = 3/5.0 is <<3, 5>>).           *)
(*  - A dict is a function whose DOMAIN is the dict's key set.             *)
(***************************************************************************)
EXTENDS Integers, Sequences, FiniteSets, TLC

VARIABLES
    pc,      \* position of the caller: "ready" before the call, "done" after it,
             \* inside analyze_all_data the step that comes next
    text,    \* the text argument of the call
    config,  \* the configuration dict
    items,   \* the item list (or raw batch) argument of the call
    result,  \* the value the call returned
    args,    \* the other arguments of the call
    local,   \* the local variables of a running call of analyze_all_data
    now,     \* the wall clock, in seconds
    prev     \* the value an earlier call of analyze_all_data returned

vars == <<pc, text, config, items, result, args, local, now, prev>>

\* the variables only analyze_all_data touches
orchestrator == <<args, local, now, prev>>

\* their value in the specifications of the other functions
NoOrchestrator == args = <<>> /\ local = <<>> /\ now = 0 /\ prev = <<>>

----------------------------------------------------------------------------
(* Bounds of the inputs. *)

\* longest input text
MaxTextLen == 2

\* longest positive / negative keyword list of a configuration
MaxKwList == 4

Alphabet == {"a", "b"}

\* the keywords a configuration may list, in a fixed order
KeywordOrder == << <<"a">>, <<"b">>, <<"a", "b">> >>

Keywords == {KeywordOrder[i] : i \in DOMAIN KeywordOrder}

KeywordRank(kw) == CHOOSE i \in DOMAIN KeywordOrder : KeywordOrder[i] = kw

SeqsUpTo(S, n) == UNION {[1..k -> S] : k \in 0..n}

Texts == SeqsUpTo(Alphabet, MaxTextLen)

\* Keyword lists up to permutation: the hit counts do not depend on the order
\* of a list, a repeated keyword is kept (it is counted once per repetition).
KwLists ==
    {s \in SeqsUpTo(Keywords, MaxKwList) :
        \A i \in 1..(Len(s) - 1) : KeywordRank(s[i]) <= KeywordRank(s[i + 1])}

\* override keyword lists: empty or one keyword
OverrideLists == {<<>>} \cup {<<kw>> : kw \in Keywords}

NoResult == [label |-> "none"]

----------------------------------------------------------------------------
(* Helpers: Python built-ins. *)

\* kw in text  (str.__contains__): kw occurs as a contiguous substring
Contains(kw, t) ==
    \E i \in 0..(Len(t) - Len(kw)) : SubSeq(t, i + 1, i + Len(kw)) = kw

RECURSIVE GCD(_, _)
GCD(a, b) == IF b = 0 THEN a ELSE GCD(b, a % b)

\* the float n / d, d > 0, n >= 0
Frac(n, d) == LET g == GCD(n, d) IN <<n \div g, d \div g>>

FracLeq(x, y) == x[1] * y[2] <= y[1] * x[2]

\* min(1.0, x)
Min1(x) == IF FracLeq(<<1, 1>>, x) THEN <<1, 1>> ELSE x

\* -x
Neg(x) == <<0 - x[1], x[2]>>

\* any(kw in text for kw in kws)
AnyIn(kws, t) == \E i \in DOMAIN kws : Contains(kws[i], t)

\* mutant: every occurrence of a keyword in the text counts
CountIn_occurrences(kws, t) ==
    Cardinality({<<i, j>> \in (DOMAIN kws) \X (0..Len(t)) :
                    /\ j + Len(kws[i]) <= Len(t)
                    /\ SubSeq(t, j + 1, j + Len(kws[i])) = kws[i]})

\* sum(1 for kw in kws if kw in text)
CountIn(kws, t) == Cardinality({i \in DOMAIN kws : Contains(kws[i], t)})

----------------------------------------------------------------------------
(* classify_sentiment *)

\* mutant: the override context does not neutralize the negative hits
SuppressNegative_off(has_positive_override, negative_count) == negative_count

\* lines 177-179
SuppressNegative(has_positive_override, negative_count) ==
    IF has_positive_override /\ negative_count > 0 THEN 0 ELSE negative_count

\* mutant: no early return for zero hits (the tie branch answers)
ZeroHits_off(total_count) == FALSE

\* line 183
ZeroHits(total_count) == total_count = 0

\* mutant: a tie counts as positive
PositiveWins_geq(positive_count, negative_count) == positive_count >= negative_count

\* line 186
PositiveWins(positive_count, negative_count) == positive_count > negative_count

\* mutant: confidence not capped at 1.0
Confidence_nocap(total_count) == Frac(total_count, 5)

\* lines 189, 193
Confidence(total_count) == Min1(Frac(total_count, 5))

classify_sentiment(t, cfg) ==
    LET positive_keywords == cfg.positive
        negative_keywords == cfg.negative
        override_keywords == cfg.override
        has_positive_override == AnyIn(override_keywords, t)
        positive_count == CountIn(positive_keywords, t)
        negative_count ==
            SuppressNegative(has_positive_override, CountIn(negative_keywords, t))
        total_count == positive_count + negative_count
    IN  IF ZeroHits(total_count)
        THEN [label |-> "neutral", score |-> <<0, 1>>, confidence |-> <<3, 10>>]
        ELSE IF PositiveWins(positive_count, negative_count)
        THEN [label |-> "positive",
              score |-> Min1(Frac(positive_count, total_count)),
              confidence |-> Confidence(total_count)]
        ELSE IF negative_count > positive_count
        THEN [label |-> "negative",
              score |-> Neg(Min1(Frac(negative_count, total_count))),
              confidence |-> Confidence(total_count)]
        ELSE [label |-> "neutral", score |-> <<0, 1>>, confidence |-> <<1, 2>>]

InitClassify ==
    /\ pc = "ready"
    /\ text \in Texts
    /\ config \in [positive : KwLists, negative : KwLists, override : OverrideLists]
    /\ items = <<>>
    /\ result = NoResult
    /\ NoOrchestrator

\* one call classify_sentiment(text, config)
CallClassifySentiment ==
    /\ pc = "ready"
    /\ result' = classify_sentiment(text, config)
    /\ pc' = "done"
    /\ UNCHANGED <<text, config, items, orchestrator>>

NextClassify == CallClassifySentiment

SpecClassify == InitClassify /\ [][NextClassify]_vars

----------------------------------------------------------------------------
(* Properties of classify_sentiment, stated over the inputs of the call. *)

\* number of entries of the positive keyword list that occur in the text
PosHits == Cardinality({i \in DOMAIN config.positive : Contains(config.positive[i], text)})

\* number of entries of the negative keyword list that occur in the text
NegHits == Cardinality({i \in DOMAIN config.negative : Contains(config.negative[i], text)})

\* the text contains at least one override keyword
OverridePresent == \E i \in DOMAIN config.override : Contains(config.override[i], text)

\* the negative count after override suppression
PostNeg == IF OverridePresent THEN 0 ELSE NegHits

\* C1: a text that contains no positive keyword and no negative keyword is
\* classified exactly (neutral, 0.0, 0.3), whatever the configuration.
C1_NoHitsNeutral ==
    (pc = "done"
        /\ (\A i \in DOMAIN config.positive : ~Contains(config.positive[i], text))
        /\ (\A i \in DOMAIN config.negative : ~Contains(config.negative[i], text)))
    => result = [label |-> "neutral", score |-> <<0, 1>>, confidence |-> <<3, 10>>]

\* a non-empty text classified under non-empty keyword lists none of which it contains
C1_Witness ==
    /\ pc = "done"
    /\ text # <<>> /\ config.positive # <<>> /\ config.negative # <<>>
    /\ PosHits = 0 /\ NegHits = 0
    /\ result.label = "neutral"

\* C2: when the positive count equals the post-suppression negative count and
\* both are greater than zero, the result is (neutral, 0.0, 0.5).
C2_TieNeutral ==
    (pc = "done" /\ PosHits = PostNeg /\ PosHits > 0)
    => result = [label |-> "neutral", score |-> <<0, 1>>, confidence |-> <<1, 2>>]

\* a tie of two hits on each side
C2_Witness ==
    /\ pc = "done"
    /\ PosHits = 2 /\ PostNeg = 2
    /\ result.confidence = <<1, 2>>

\* C3: with post-suppression counts p # n the label is positive with score
\* min(1, p/(p+n)) when p > n and negative with score -min(1, n/(p+n)) when
\* n > p; the confidence is min(1, (p+n)/5); three positive hits and no
\* negative hit give (positive, 1.0, 0.6).
C3_DecisionTable ==
    LET p == PosHits
        n == PostNeg
    IN  (pc = "done" /\ p # n) =>
            /\ p > n => /\ result.label = "positive"
                        /\ result.score[2] > 0
                        /\ result.score[1] * (p + n) = p * result.score[2]
            /\ n > p => /\ result.label = "negative"
                        /\ result.score[2] > 0
                        /\ result.score[1] * (p + n) = (0 - n) * result.score[2]
            /\ result.confidence[2] > 0
            /\ IF p + n >= 5
               THEN result.confidence[1] = result.confidence[2]
               ELSE result.confidence[1] * 5 = (p + n) * result.confidence[2]
            /\ (p = 3 /\ n = 0) =>
                   result = [label |-> "positive", score |-> <<1, 1>>,
                             confidence |-> <<3, 5>>]

\* more than five hits, unequal on the two sides: the confidence cap applies
C3_Witness ==
    /\ pc = "done"
    /\ PosHits > 0 /\ PostNeg > 0 /\ PosHits # PostNeg
    /\ PosHits + PostNeg > 5
    /\ result.confidence = <<1, 1>>

\* C4: a text that contains an override keyword is classified as if it had no
\* negative hit: the label is never negative, whatever NegHits is.
C4_OverrideNeverNegative ==
    (pc = "done" /\ OverridePresent) =>
        /\ result.label # "negative"
        /\ PosHits = 0 => result = [label |-> "neutral", score |-> <<0, 1>>,
                                    confidence |-> <<3, 10>>]
        /\ PosHits > 0 => /\ result.label = "positive"
                          /\ result.score = <<1, 1>>

\* an override keyword in a text with more negative hits than positive hits
C4_Witness ==
    /\ pc = "done"
    /\ OverridePresent
    /\ NegHits > PosHits /\ PosHits > 0
    /\ result.label = "positive"

----------------------------------------------------------------------------
(* Content items.  A function of the engine reads only some keys of an
   item; the items of a specification carry the keys its function reads. *)

\* longest item list passed to detect_risks
MaxRiskItems == 3

Labels == {"positive", "neutral", "negative"}

\* body texts of the items (an item never has an empty body text)
Contents == {<<"a">>, <<"b">>, <<"a", "b">>}

\* engagement dicts: metric name -> count
Engagements ==
    {[likes |-> 1, comments |-> 0],
     [likes |-> 1, comments |-> 1]}

\* keyword lists of at most one one-character keyword
ShortLists == {<<>>} \cup {<< <<c>> >> : c \in Alphabet}

\* sum(d.values())
RECURSIVE SumValues(_)
SumValues(d) ==
    IF DOMAIN d = {} THEN 0
    ELSE LET k == CHOOSE x \in DOMAIN d : TRUE
         IN  d[k] + SumValues([x \in DOMAIN d \ {k} |-> d[x]])

\* [kw for kw in kws if kw in content]
MatchedIn(kws, content) == SelectSeq(kws, LAMBDA kw : Contains(kw, content))

----------------------------------------------------------------------------
(* detect_risks *)

\* mutant: every label is a risk candidate
IsRiskCandidate_all(label) == TRUE

\* line 220
IsRiskCandidate(label) == label \in {"negative", "neutral"}

\* mutant: the override context does not veto the risk flag
OverrideVeto_off(content, override_keywords) == FALSE

\* lines 230-232
OverrideVeto(content, override_keywords) == AnyIn(override_keywords, content)

\* mutant: every high priority keyword has to occur in the content
HasHighPriority_all(high_priority_keywords, content) ==
    \A k \in DOMAIN high_priority_keywords : Contains(high_priority_keywords[k], content)

\* line 235
HasHighPriority(high_priority_keywords, content) ==
    AnyIn(high_priority_keywords, content)

\* the entry appended for items[i], lines 234-247; "item" refers to the
\* item object, here its position in the input list
RiskEntry(its, i, cfg) ==
    LET content == its[i].content
        matched_keywords == MatchedIn(cfg.risk, content)
        has_high_priority == HasHighPriority(cfg.high, content)
    IN  [item |-> i,
         severity |-> IF has_high_priority THEN "high" ELSE "medium",
         keywords |-> matched_keywords,
         engagement |-> SumValues(its[i].engagement),
         reason |-> SubSeq(matched_keywords, 1,
                           IF Len(matched_keywords) < 3 THEN Len(matched_keywords) ELSE 3)]

\* the loop of lines 218-247 over items[1..n]
RECURSIVE RiskLoop(_, _, _)
RiskLoop(its, n, cfg) ==
    IF n = 0 THEN <<>>
    ELSE LET before == RiskLoop(its, n - 1, cfg)
             content == its[n].content
         IN  IF ~IsRiskCandidate(its[n].sentiment.label) THEN before
             ELSE IF MatchedIn(cfg.risk, content) = <<>> THEN before
             ELSE IF OverrideVeto(content, cfg.override) THEN before
             ELSE Append(before, RiskEntry(its, n, cfg))

\* mutant: engagement ascending
RiskKey_ascending(x) == <<IF x.severity = "high" THEN 0 ELSE 1, x.engagement>>

\* the sort key of line 250
RiskKey(x) == <<IF x.severity = "high" THEN 0 ELSE 1, 0 - x.engagement>>

\* k1 < k2 for tuples of two integers
PairLess(k1, k2) == k1[1] < k2[1] \/ (k1[1] = k2[1] /\ k1[2] < k2[2])

\* x placed into the sorted list s after every element whose key is not greater
RECURSIVE RiskInsert(_, _)
RiskInsert(s, x) ==
    IF s = <<>> THEN <<x>>
    ELSE IF PairLess(RiskKey(x), RiskKey(s[Len(s)]))
         THEN Append(RiskInsert(SubSeq(s, 1, Len(s) - 1), x), s[Len(s)])
         ELSE Append(s, x)

\* list.sort(key=...): ascending in the key, stable
RECURSIVE RiskSort(_)
RiskSort(s) ==
    IF s = <<>> THEN <<>>
    ELSE RiskInsert(RiskSort(SubSeq(s, 1, Len(s) - 1)), s[Len(s)])

detect_risks(its, cfg) == RiskSort(RiskLoop(its, Len(its), cfg))

RiskItems == [content : Contents, sentiment : [label : Labels], engagement : Engagements]

InitRisks ==
    /\ pc = "ready"
    /\ text = <<>>
    /\ config \in [risk : ShortLists, high : ShortLists, override : ShortLists]
    /\ \E n \in 0..MaxRiskItems : items \in [1..n -> RiskItems]
    /\ result = <<>>
    /\ NoOrchestrator

\* one call detect_risks(items, config)
CallDetectRisks ==
    /\ pc = "ready"
    /\ result' = detect_risks(items, config)
    /\ pc' = "done"
    /\ UNCHANGED <<text, config, items, orchestrator>>

NextRisks == CallDetectRisks

SpecRisks == InitRisks /\ [][NextRisks]_vars

\* longest item list of the calls that look at the severity
MaxSeverityItems == 2

\* risk keyword lists of up to two one-character keywords
RiskLists == ShortLists \cup {<< <<"a">>, <<"b">> >>}

\* calls of detect_risks with up to two risk keywords
InitSeverity ==
    /\ pc = "ready"
    /\ text = <<>>
    /\ config \in [risk : RiskLists, high : ShortLists, override : ShortLists]
    /\ \E n \in 0..MaxSeverityItems : items \in [1..n -> RiskItems]
    /\ result = <<>>
    /\ NoOrchestrator

SpecSeverity == InitSeverity /\ [][NextRisks]_vars

----------------------------------------------------------------------------
(* Properties of detect_risks, stated over the input list and the output. *)

\* the input positions the entries of the output refer to
RiskPositions == {result[k].item : k \in DOMAIN result}

\* items[i] contains some risk keyword / some override keyword
HasRiskKeyword(i) == \E k \in DOMAIN config.risk : Contains(config.risk[k], items[i].content)

HasOverrideKeyword(i) ==
    \E k \in DOMAIN config.override : Contains(config.override[k], items[i].content)

\* the positions detect_risks is to flag
Flagged ==
    {i \in DOMAIN items :
        /\ items[i].sentiment.label \in {"negative", "neutral"}
        /\ HasRiskKeyword(i)
        /\ ~HasOverrideKeyword(i)}

\* total engagement of items[i]: the sum of all its metrics
TotalEngagement(i) == items[i].engagement.likes + items[i].engagement.comments

\* C5: no entry of the list detect_risks returns refers to an item whose
\* sentiment label is positive.
C5_NoPositiveRisk ==
    pc = "done" => \A k \in DOMAIN result : items[result[k].item].sentiment.label # "positive"

\* a positive item with a risk keyword and no override keyword was passed
\* over while another item of the same list was flagged
C5_Witness ==
    /\ pc = "done"
    /\ \E i \in DOMAIN items :
          /\ items[i].sentiment.label = "positive"
          /\ HasRiskKeyword(i) /\ ~HasOverrideKeyword(i)
          /\ i \notin RiskPositions
    /\ result # <<>>

\* C6: the output has exactly one entry for each item that is negative or
\* neutral, contains a risk keyword and contains no override keyword, and no
\* entry for any other item (none for an item with an override keyword).
C6_ExactlyFlagged ==
    pc = "done" =>
        /\ RiskPositions = Flagged
        /\ Len(result) = Cardinality(Flagged)
        /\ \A k \in DOMAIN result : ~HasOverrideKeyword(result[k].item)

\* one item flagged, and a non-positive item with a risk keyword dropped
\* because it also contains an override keyword
C6_Witness ==
    /\ pc = "done"
    /\ Len(result) = 1
    /\ \E i \in DOMAIN items :
          /\ items[i].sentiment.label = "negative"
          /\ HasRiskKeyword(i) /\ HasOverrideKeyword(i)
          /\ i \notin RiskPositions

\* C7: high-severity entries precede medium-severity entries; within one
\* severity the entries are in descending order of total engagement; entries
\* of equal severity and equal total engagement keep their input order.
C7_RiskOrder ==
    pc = "done" =>
        \A j, k \in DOMAIN result :
            j < k =>
                /\ ~(result[j].severity = "medium" /\ result[k].severity = "high")
                /\ result[j].severity = result[k].severity =>
                       /\ TotalEngagement(result[j].item) >= TotalEngagement(result[k].item)
                       /\ TotalEngagement(result[j].item) = TotalEngagement(result[k].item)
                              => result[j].item < result[k].item

\* three entries: the last input item is high and comes first, the first two
\* are medium with equal engagement and keep their input order
C7_Witness ==
    /\ pc = "done"
    /\ Len(result) = 3
    /\ result[1].item = 3 /\ result[1].severity = "high"
    /\ result[2].item = 1 /\ result[2].severity = "medium"
    /\ result[3].item = 2 /\ result[3].severity = "medium"
    /\ TotalEngagement(1) = TotalEngagement(2)
    /\ TotalEngagement(3) < TotalEngagement(1)

----------------------------------------------------------------------------
(* identify_kols *)

\* longest item list passed to identify_kols
MaxKolItems == 3

\* minimum threshold of line 342
KolMinEngagement == 100

\* kols[:10] of line 347
KolTop == 10

AuthorIds == {<<>>, <<"u", "1">>, <<"u", "2">>}

AuthorNames == {<<>>, <<"n">>}

Platforms == {"xhs", "wb"}

\* engagement dicts with totals 50, 100 and 101
KolEngagements ==
    {[likes |-> 50, comments |-> 0],
     [likes |-> 50, comments |-> 50],
     [likes |-> 51, comments |-> 50]}

\* position of author_id among the keys of author_stats, 0 when it is no key
KolIndex(stats, author_id) ==
    IF \E k \in DOMAIN stats : stats[k].id = author_id
    THEN CHOOSE k \in DOMAIN stats : stats[k].id = author_id
    ELSE 0

\* one iteration of the loop of lines 318-337 for items[i]; author_stats is
\* the list of the dict's values in insertion order, "posts" holds the
\* positions of the appended items
KolStep(stats, its, i) ==
    LET author_id == its[i].author.id
        author_name == its[i].author.name
    IN  IF author_id = <<>> \/ author_name = <<>> THEN stats
        ELSE LET known == KolIndex(stats, author_id)
                 stats1 == IF known # 0 THEN stats
                           ELSE Append(stats,
                                    [id |-> author_id,
                                     name |-> author_name,
                                     platform |-> its[i].platform,
                                     post_count |-> 0,
                                     total_engagement |-> 0,
                                     posts |-> <<>>])
                 k == KolIndex(stats1, author_id)
             IN  [stats1 EXCEPT
                    ![k].post_count = @ + 1,
                    ![k].total_engagement = @ + SumValues(its[i].engagement),
                    ![k].posts = Append(@, i)]

RECURSIVE KolLoop(_, _)
KolLoop(its, n) == IF n = 0 THEN <<>> ELSE KolStep(KolLoop(its, n - 1), its, n)

\* mutant: the threshold itself qualifies
KolQualifies_geq(author) == author.total_engagement >= KolMinEngagement

\* line 342
KolQualifies(author) == author.total_engagement > KolMinEngagement

\* x placed into the list s, sorted by total_engagement descending, after
\* every element whose total_engagement is not smaller
RECURSIVE KolInsert(_, _)
KolInsert(s, x) ==
    IF s = <<>> THEN <<x>>
    ELSE IF x.total_engagement > s[Len(s)].total_engagement
         THEN Append(KolInsert(SubSeq(s, 1, Len(s) - 1), x), s[Len(s)])
         ELSE Append(s, x)

\* list.sort(key=total_engagement, reverse=True): descending, stable
RECURSIVE KolSort(_)
KolSort(s) ==
    IF s = <<>> THEN <<>>
    ELSE KolInsert(KolSort(SubSeq(s, 1, Len(s) - 1)), s[Len(s)])

\* mutant: the slice keeps the whole list
Take_all(s, n) == s

\* s[:n]
Take(s, n) == SubSeq(s, 1, IF Len(s) < n THEN Len(s) ELSE n)

identify_kols(its) ==
    LET author_stats == KolLoop(its, Len(its))
        kols == SelectSeq(author_stats, KolQualifies)
    IN  Take(KolSort(kols), KolTop)

KolItems ==
    [author : [id : AuthorIds, name : AuthorNames],
     platform : Platforms,
     engagement : KolEngagements]

InitKols ==
    /\ pc = "ready"
    /\ text = <<>>
    /\ config = <<>>
    /\ \E n \in 0..MaxKolItems : items \in [1..n -> KolItems]
    /\ result = <<>>
    /\ NoOrchestrator

\* one call identify_kols(items, config)
CallIdentifyKols ==
    /\ pc = "ready"
    /\ result' = identify_kols(items)
    /\ pc' = "done"
    /\ UNCHANGED <<text, config, items, orchestrator>>

NextKols == CallIdentifyKols

SpecKols == InitKols /\ [][NextKols]_vars

\* number of distinct authors of the long item lists, above kols[:10]
MaxKolAuthors == 11

\* calls of identify_kols with short item lists as in InitKols or with one
\* item for each of MaxKolAuthors authors, of total engagement 101 or 102
InitKolsTop ==
    /\ pc = "ready"
    /\ text = <<>>
    /\ config = <<>>
    /\ \/ \E n \in 0..(MaxKolItems - 1) : items \in [1..n -> KolItems]
       \/ \E likes \in [1..MaxKolAuthors -> 51..52] :
              items = [i \in 1..MaxKolAuthors |->
                          [author |-> [id |-> [k \in 1..i |-> "u"], name |-> <<"n">>],
                           platform |-> "wb",
                           engagement |-> [likes |-> likes[i], comments |-> 50]]]
    /\ result = <<>>
    /\ NoOrchestrator

SpecKolsTop == InitKolsTop /\ [][NextKols]_vars

----------------------------------------------------------------------------
(* Properties of identify_kols. *)

RECURSIVE SumOver(_, _)
\* sum of f[i] over the finite set S
SumOver(f, S) ==
    IF S = {} THEN 0
    ELSE LET i == CHOOSE x \in S : TRUE IN f[i] + SumOver(f, S \ {i})

\* total engagement of each input item
ItemTotals == [i \in DOMAIN items |-> items[i].engagement.likes + items[i].engagement.comments]

\* C8: every entry identify_kols returns has total_engagement > 100; the
\* field is the sum of the engagement of the entry's contributing items, all
\* of them items of that author id, so the engagement summed over all items of
\* the author id is above 100 as well.
C8_KolAboveThreshold ==
    pc = "done" =>
        \A k \in DOMAIN result :
            LET e == result[k]
                posts == {e.posts[j] : j \in DOMAIN e.posts}
                ofAuthor == {i \in DOMAIN items : items[i].author.id = e.id}
            IN  /\ e.total_engagement > 100
                /\ posts \subseteq ofAuthor
                /\ e.total_engagement = SumOver(ItemTotals, posts)
                /\ SumOver(ItemTotals, ofAuthor) > 100

\* one author above the threshold is returned, another whose items total
\* exactly 100 is left out
C8_Witness ==
    /\ pc = "done"
    /\ Len(result) = 1
    /\ result[1].id = <<"u", "1">>
    /\ \E i \in DOMAIN items :
          /\ items[i].author = [id |-> <<"u", "2">>, name |-> <<"n">>]
          /\ SumOver(ItemTotals, {j \in DOMAIN items : items[j].author.id = <<"u", "2">>}) = 100

----------------------------------------------------------------------------
(* aggregate_metrics *)

\* longest item list passed to aggregate_metrics
MaxMetricItems == 4

\* Counter(seq): a dict on the values that occur in seq
CounterOf(seq) ==
    [v \in {seq[i] : i \in DOMAIN seq} |->
        Cardinality({i \in DOMAIN seq : seq[i] = v})]

\* mutant: the digits after the first decimal are cut off
RoundTenths_truncate(n, d) == (10 * n) \div d

\* the number of tenths of round(n / d, 1), n >= 0, d > 0: the nearest
\* tenth, a tie going to the even digit.  (Within the bounds a quotient lies
\* on a tie only when it is a multiple of 1/4, which a float holds exactly.)
RoundTenths(n, d) ==
    LET q == (10 * n) \div d
        r == (10 * n) % d
    IN  IF 2 * r < d THEN q
        ELSE IF 2 * r > d THEN q + 1
        ELSE IF q % 2 = 0 THEN q ELSE q + 1

\* round(n / d, 1) as a float
Round1(n, d) == Frac(RoundTenths(n, d), 10)

\* mutant: no guard for the empty list
IsEmptyInput_off(total_items) == FALSE

\* line 362
IsEmptyInput(total_items) == total_items = 0

\* item["sentiment"]["label"] for item in items
ItemLabels(its) == [i \in DOMAIN its |-> its[i].sentiment.label]

\* item["platform"] for item in items
ItemPlatforms(its) == [i \in DOMAIN its |-> its[i].platform]

\* sum(sum(item["engagement"].values()) for item in items[1..n])
RECURSIVE EngagementSum(_, _)
EngagementSum(its, n) ==
    IF n = 0 THEN 0 ELSE EngagementSum(its, n - 1) + SumValues(its[n].engagement)

aggregate_metrics(its) ==
    LET total_items == Len(its)
        sentiment_dist == CounterOf(ItemLabels(its))
        total_engagement == EngagementSum(its, Len(its))
    IN  IF IsEmptyInput(total_items)
        THEN [total_items |-> 0,
              sentiment_dist |-> [l \in Labels |-> 0],
              sentiment_pct |-> [l \in Labels |-> 0],
              total_engagement |-> 0,
              avg_engagement |-> 0,
              platform_dist |-> <<>>]
        ELSE IF total_items = 0
        \* total_engagement / total_items of line 381 divides by zero
        THEN [raised |-> "ZeroDivisionError"]
        ELSE [total_items |-> total_items,
              sentiment_dist |-> sentiment_dist,
              sentiment_pct |->
                  [l \in DOMAIN sentiment_dist |->
                      Round1(sentiment_dist[l] * 100, total_items)],
              total_engagement |-> total_engagement,
              avg_engagement |-> Round1(total_engagement, total_items),
              platform_dist |-> CounterOf(ItemPlatforms(its))]

MetricItems ==
    [sentiment : [label : Labels], platform : Platforms, engagement : Engagements]

InitMetrics ==
    /\ pc = "ready"
    /\ text = <<>>
    /\ config = <<>>
    /\ \E n \in 0..MaxMetricItems : items \in [1..n -> MetricItems]
    /\ result = NoResult
    /\ NoOrchestrator

\* one call aggregate_metrics(items)
CallAggregateMetrics ==
    /\ pc = "ready"
    /\ result' = aggregate_metrics(items)
    /\ pc' = "done"
    /\ UNCHANGED <<text, config, items, orchestrator>>

NextMetrics == CallAggregateMetrics

SpecMetrics == InitMetrics /\ [][NextMetrics]_vars

----------------------------------------------------------------------------
(* Properties of aggregate_metrics. *)

\* number of input items with label l
LabelCount(l) == Cardinality({i \in DOMAIN items : items[i].sentiment.label = l})

\* C9: on the empty list aggregate_metrics raises nothing and returns
\* total_items 0, all three sentiment counts and percentages 0, total and
\* average engagement 0 and an empty per-platform distribution.
C9_EmptyAggregate ==
    (pc = "done" /\ items = <<>>) =>
        /\ "raised" \notin DOMAIN result
        /\ result.total_items = 0
        /\ DOMAIN result.sentiment_dist = {"positive", "neutral", "negative"}
        /\ \A l \in DOMAIN result.sentiment_dist : result.sentiment_dist[l] = 0
        /\ DOMAIN result.sentiment_pct = {"positive", "neutral", "negative"}
        /\ \A l \in DOMAIN result.sentiment_pct : result.sentiment_pct[l] = 0
        /\ result.total_engagement = 0
        /\ result.avg_engagement = 0
        /\ DOMAIN result.platform_dist = {}

\* aggregate_metrics has returned for the empty list
C9_Witness ==
    /\ pc = "done"
    /\ items = <<>>
    /\ "total_items" \in DOMAIN result

\* C10: on a non-empty list the percentage of every label present is
\* round(count / total * 100, 1): a number of tenths within 0.05 of
\* 100 * count / total; the label counts are the numbers of items with each
\* label and sum to total_items, the number of items.
C10_Percentages ==
    (pc = "done" /\ items # <<>>) =>
        LET total == Len(items)
            present == {l \in Labels : LabelCount(l) > 0}
        IN  /\ result.total_items = total
            /\ DOMAIN result.sentiment_dist = present
            /\ DOMAIN result.sentiment_pct = present
            /\ \A l \in present :
                  LET pct == result.sentiment_pct[l]
                  IN  /\ result.sentiment_dist[l] = LabelCount(l)
                      /\ pct[2] \in {1, 2, 5, 10}
                      /\ LET diff == pct[1] * total - 100 * LabelCount(l) * pct[2]
                         IN  /\ 20 * diff <= pct[2] * total
                             /\ 20 * (0 - diff) <= pct[2] * total
            /\ SumOver(result.sentiment_dist, present) = result.total_items

\* three items, two of one label: 66.7 and 33.3
C10_Witness ==
    /\ pc = "done"
    /\ Len(items) = 3
    /\ LabelCount("negative") = 2 /\ LabelCount("positive") = 1
    /\ result.sentiment_pct["negative"] = <<667, 10>>
    /\ result.sentiment_pct["positive"] = <<333, 10>>

----------------------------------------------------------------------------
(* extract_trending_topics *)

\* longest item list passed to extract_trending_topics
MaxTopicItems == 2

\* longest tag list of an item
MaxTags == 2

\* most_common(10) of line 287
TopicTop == 10

\* the tags of the items (normalization keeps no empty tag)
TagNames == {<<"t">>, <<"u">>}

\* mutant: a tag is counted once per item
ItemTags_distinct(item) ==
    SelectSeq([j \in DOMAIN item.tags |->
                  IF \E k \in 1..(j - 1) : item.tags[k] = item.tags[j]
                  THEN <<>> ELSE item.tags[j]],
              LAMBDA tag : tag # <<>>)

\* line 271: item.get("tags", [])
ItemTags(item) == IF "tags" \in DOMAIN item THEN item.tags ELSE <<>>

\* position of tag among the keys of tag_stats, 0 when it is no key
TopicIndex(stats, tag) ==
    IF \E k \in DOMAIN stats : stats[k].topic = tag
    THEN CHOOSE k \in DOMAIN stats : stats[k].topic = tag
    ELSE 0

\* lines 276-283 for one tag of an item; stats lists tag_stats,
\* tag_engagement and tag_sentiment by tag, in the order the tags were first seen
TopicStep(stats, tag, engagement, sentiment) ==
    IF tag = <<>> THEN stats
    ELSE LET stats1 == IF TopicIndex(stats, tag) # 0 THEN stats
                       ELSE Append(stats,
                                [topic |-> tag,
                                 count |-> 0,
                                 engagement |-> 0,
                                 sentiment_dist |->
                                     [positive |-> 0, neutral |-> 0, negative |-> 0]])
             k == TopicIndex(stats1, tag)
         IN  [stats1 EXCEPT
                ![k].count = @ + 1,
                ![k].engagement = @ + engagement,
                ![k].sentiment_dist[sentiment] = @ + 1]

\* the loop of line 275 over tags[1..m] of one item
RECURSIVE TagLoop(_, _, _, _, _)
TagLoop(stats, tags, m, engagement, sentiment) ==
    IF m = 0 THEN stats
    ELSE TopicStep(TagLoop(stats, tags, m - 1, engagement, sentiment),
                   tags[m], engagement, sentiment)

\* the loop of line 270 over items[1..n]
RECURSIVE TopicLoop(_, _)
TopicLoop(its, n) ==
    IF n = 0 THEN <<>>
    ELSE LET tags == ItemTags(its[n])
         IN  TagLoop(TopicLoop(its, n - 1), tags, Len(tags),
                     SumValues(its[n].engagement), its[n].sentiment.label)

\* mutant: the tags stay in first-seen order
TopicInsert_append(s, x) == Append(s, x)

\* x placed into the list s, sorted by count descending, after every element
\* whose count is not smaller
RECURSIVE TopicInsert(_, _)
TopicInsert(s, x) ==
    IF s = <<>> THEN <<x>>
    ELSE IF x.count > s[Len(s)].count
         THEN Append(TopicInsert(SubSeq(s, 1, Len(s) - 1), x), s[Len(s)])
         ELSE Append(s, x)

\* Counter.most_common: count descending, equal counts in first-seen order
RECURSIVE TopicSort(_)
TopicSort(s) ==
    IF s = <<>> THEN <<>>
    ELSE TopicInsert(TopicSort(SubSeq(s, 1, Len(s) - 1)), s[Len(s)])

\* mutant: the last key of the dict that holds the maximum
DominantSentiment_last(dist) ==
    IF dist.negative >= dist.neutral /\ dist.negative >= dist.positive THEN "negative"
    ELSE IF dist.neutral >= dist.positive THEN "neutral"
    ELSE "positive"

\* line 292: max(sentiment_dist, key=sentiment_dist.get), the first key of
\* the dict (positive, neutral, negative) that holds the maximum
DominantSentiment(dist) ==
    IF dist.positive >= dist.neutral /\ dist.positive >= dist.negative THEN "positive"
    ELSE IF dist.neutral >= dist.negative THEN "neutral"
    ELSE "negative"

\* lines 288-300
TopicEntry(stat) ==
    [topic |-> stat.topic,
     count |-> stat.count,
     avg_engagement |-> Frac(stat.engagement, stat.count),
     sentiment |-> DominantSentiment(stat.sentiment_dist),
     sentiment_dist |-> stat.sentiment_dist]

extract_trending_topics(its) ==
    LET common == Take(TopicSort(TopicLoop(its, Len(its))), TopicTop)
    IN  [k \in DOMAIN common |-> TopicEntry(common[k])]

TopicItems ==
    [tags : SeqsUpTo(TagNames, MaxTags),
     sentiment : [label : Labels],
     engagement : Engagements]

InitTopics ==
    /\ pc = "ready"
    /\ text = <<>>
    /\ config = <<>>
    /\ \E n \in 0..MaxTopicItems : items \in [1..n -> TopicItems]
    /\ result = <<>>
    /\ NoOrchestrator

\* one call extract_trending_topics(items)
CallExtractTrendingTopics ==
    /\ pc = "ready"
    /\ result' = extract_trending_topics(items)
    /\ pc' = "done"
    /\ UNCHANGED <<text, config, items, orchestrator>>

NextTopics == CallExtractTrendingTopics

SpecTopics == InitTopics /\ [][NextTopics]_vars

----------------------------------------------------------------------------
(* Properties of extract_trending_topics. *)

\* number of positions of the tag list of items[i] that hold tag
Occurrences(i, tag) == Cardinality({j \in DOMAIN items[i].tags : items[i].tags[j] = tag})

\* occurrences of tag in each item / in each item labeled l (0 for the others)
OccurrencesByItem(tag) == [i \in DOMAIN items |-> Occurrences(i, tag)]

OccurrencesWithLabel(tag, l) ==
    [i \in DOMAIN items |->
        IF items[i].sentiment.label = l THEN Occurrences(i, tag) ELSE 0]

\* occurrences of tag in each item times the item's total engagement
EngagementByItem(tag) ==
    [i \in DOMAIN items |->
        Occurrences(i, tag) * (items[i].engagement.likes + items[i].engagement.comments)]

\* C12: a tag that an item lists k times adds k to the tag's count, k times
\* the item's total engagement to the tag's engagement and k to the histogram
\* entry of the item's label: the count of a topic is the number of raw
\* occurrences of its tag over all items.
C12_TagsNotDeduplicated ==
    pc = "done" =>
        /\ {result[k].topic : k \in DOMAIN result}
              = {tag \in TagNames : \E i \in DOMAIN items : Occurrences(i, tag) > 0}
        /\ \A k \in DOMAIN result :
              LET e == result[k]
              IN  /\ e.count = SumOver(OccurrencesByItem(e.topic), DOMAIN items)
                  /\ e.avg_engagement[1] * e.count
                        = SumOver(EngagementByItem(e.topic), DOMAIN items)
                              * e.avg_engagement[2]
                  /\ \A l \in Labels :
                        e.sentiment_dist[l]
                            = SumOver(OccurrencesWithLabel(e.topic, l), DOMAIN items)

\* one item lists the same tag twice, another once: the topic counts 3
C12_Witness ==
    /\ pc = "done"
    /\ Len(items) = 2
    /\ items[1].tags = << <<"t">>, <<"t">> >>
    /\ items[2].tags = << <<"t">> >>
    /\ items[1].sentiment.label = "negative"
    /\ Len(result) = 1
    /\ result[1].count = 3
    /\ result[1].sentiment_dist["negative"] >= 2

----------------------------------------------------------------------------
(* classify_competitor *)

\* longest keyword list of an organization
MaxOrgKeywords == 2

Orgs == {"o1", "o2"}

\* competitor_keywords: organization -> keyword list, a dict in the order of
\* the configuration file, here the list of its (key, value) pairs
CompetitorMaps ==
    {<<>>}
    \cup {<<[org |-> o, keywords |-> kws]>> :
            o \in Orgs, kws \in SeqsUpTo(Keywords, MaxOrgKeywords)}
    \cup {<<[org |-> o1, keywords |-> kws1], [org |-> o2, keywords |-> kws2]>> :
            <<o1, o2>> \in {<<"o1", "o2">>, <<"o2", "o1">>},
            <<kws1, kws2>> \in SeqsUpTo(Keywords, MaxOrgKeywords)
                                  \X SeqsUpTo(Keywords, MaxOrgKeywords)}

\* mutant: the last matching organization wins
FirstOf_last(S) == CHOOSE k \in S : \A j \in S : j <= k

\* the first position of S: the for loop of line 490 returns at its first match
FirstOf(S) == CHOOSE k \in S : \A j \in S : k <= j

\* line 489: config.get("competitor_keywords", {})
CompetitorKeywords(cfg) ==
    IF "competitor_keywords" \in DOMAIN cfg THEN cfg.competitor_keywords ELSE <<>>

classify_competitor(t, cfg) ==
    LET competitor_keywords == CompetitorKeywords(cfg)
        matching == {k \in DOMAIN competitor_keywords :
                        AnyIn(competitor_keywords[k].keywords, t)}
    IN  IF matching = {} THEN "unknown"
        ELSE competitor_keywords[FirstOf(matching)].org

InitCompetitor ==
    /\ pc = "ready"
    /\ text \in Texts
    /\ config \in {<<>>} \cup [competitor_keywords : CompetitorMaps]
    /\ items = <<>>
    /\ result = "none"
    /\ NoOrchestrator

\* one call classify_competitor(text, config)
CallClassifyCompetitor ==
    /\ pc = "ready"
    /\ result' = classify_competitor(text, config)
    /\ pc' = "done"
    /\ UNCHANGED <<text, config, items, orchestrator>>

NextCompetitor == CallClassifyCompetitor

SpecCompetitor == InitCompetitor /\ [][NextCompetitor]_vars

----------------------------------------------------------------------------
(* Properties of classify_competitor. *)

\* the configured organization list (empty when the key is missing)
OrgList == IF DOMAIN config = {} THEN <<>> ELSE config.competitor_keywords

\* the organization at position k has a keyword that occurs in the text
OrgMatches(k) ==
    \E j \in DOMAIN OrgList[k].keywords : Contains(OrgList[k].keywords[j], text)

\* C19: classify_competitor returns the first organization, in configured
\* order, one of whose keywords occurs in the text, and "unknown" exactly when
\* no organization has such a keyword.
C19_FirstMatchingOrg ==
    pc = "done" =>
        /\ (result = "unknown") <=> (\A k \in DOMAIN OrgList : ~OrgMatches(k))
        /\ \A k \in DOMAIN OrgList :
              (OrgMatches(k) /\ \A j \in 1..(k - 1) : ~OrgMatches(j))
                  => result = OrgList[k].org

\* both organizations match; the first configured one, o2, is returned
C19_Witness ==
    /\ pc = "done"
    /\ Len(OrgList) = 2
    /\ OrgList[1].org = "o2"
    /\ OrgMatches(1) /\ OrgMatches(2)
    /\ result = "o2"

----------------------------------------------------------------------------
(* normalize_platform_data *)

\* longest raw batch passed to normalize_platform_data
MaxBatch == 2

\* platform identifiers a caller passes ("tiktok": none of the known ones)
PlatformIds == {"xhs", "dy", "douyin", "bili", "wb", "tiktok"}

\* d.get(key, default)
Get(d, key, default) == IF key \in DOMAIN d THEN d[key] ELSE default

\* str.strip(): leading and trailing blanks removed
RECURSIVE Strip(_)
Strip(s) ==
    IF s = <<>> THEN s
    ELSE IF Head(s) = " " THEN Strip(Tail(s))
    ELSE IF s[Len(s)] = " " THEN Strip(SubSeq(s, 1, Len(s) - 1))
    ELSE s

\* str.split(","): the pieces between the commas, "" gives one empty piece
RECURSIVE Split(_)
Split(s) ==
    IF \A i \in DOMAIN s : s[i] # "," THEN <<s>>
    ELSE LET i == CHOOSE j \in DOMAIN s : s[j] = "," /\ \A k \in 1..(j - 1) : s[k] # ","
         IN  <<SubSeq(s, 1, i - 1)>> \o Split(SubSeq(s, i + 1, Len(s)))

DigitChars == <<"0", "1", "2", "3", "4", "5", "6", "7", "8", "9">>

IsDigit(c) == \E i \in DOMAIN DigitChars : DigitChars[i] = c

DigitValue(c) == (CHOOSE i \in DOMAIN DigitChars : DigitChars[i] = c) - 1

\* int(s) raises ValueError: s, blanks stripped, is not a run of digits
\* (the counts of the raw records carry no sign and no underscore)
IntRaises(s) ==
    LET t == Strip(s) IN t = <<>> \/ \E i \in DOMAIN t : ~IsDigit(t[i])

\* int(s) for a run of digits
RECURSIVE IntOf(_)
IntOf(s) ==
    LET t == Strip(s)
    IN  IF t = <<>> THEN 0
        ELSE 10 * IntOf(SubSeq(t, 1, Len(t) - 1)) + DigitValue(t[Len(t)])

\* item.get(key, "0") or "0"
CountText(item, key) ==
    LET v == Get(item, key, <<"0">>) IN IF v = <<>> THEN <<"0">> ELSE v

\* int(item.get(key, "0") or "0")
Count(item, key) == IntOf(CountText(item, key))

\* f"{item.get('title', '')} {item.get('desc', '')}".strip()
TitleAndDesc(item) ==
    Strip(Get(item, "title", <<>>) \o <<" ">> \o Get(item, "desc", <<>>))

\* line 67: [tag.strip() for tag in tag_list.split(",") if tag.strip()]
TagList(item) ==
    LET pieces == Split(Get(item, "tag_list", <<>>))
    IN  SelectSeq([k \in DOMAIN pieces |-> Strip(pieces[k])], LAMBDA tag : tag # <<>>)

\* the keys of a raw record whose values go through int(), by platform
CountKeys(platform) ==
    IF platform = "xhs" \/ platform = "dy" \/ platform = "douyin"
    THEN {"liked_count", "comment_count", "share_count", "collected_count"}
    ELSE IF platform = "bili"
    THEN {"liked_count", "video_play_count", "video_favorite_count",
          "video_share_count", "video_comment"}
    ELSE IF platform = "wb"
    THEN {"attitudes_count", "comments_count", "reposts_count"}
    ELSE {}

\* building normalized_item raises: one of the int() calls does
MappingRaises(item, platform) ==
    \E key \in CountKeys(platform) : IntRaises(CountText(item, key))

\* line 126
WbContent(item) == Get(item, "mblog_text", <<>>)

\* lines 47-141: normalized_item of a record of a known platform
NormalizedItem(item, platform) ==
    IF platform = "xhs"
    THEN [id |-> Get(item, "note_id", <<>>),
          platform |-> "xhs",
          type |-> Get(item, "type", "note"),
          title |-> Get(item, "title", <<>>),
          content |-> TitleAndDesc(item),
          url |-> Get(item, "note_url", <<>>),
          created_at |-> Get(item, "time", 0),
          author |-> [id |-> Get(item, "user_id", <<>>),
                      name |-> Get(item, "nickname", <<>>),
                      avatar |-> Get(item, "avatar", <<>>)],
          engagement |-> [likes |-> Count(item, "liked_count"),
                          comments |-> Count(item, "comment_count"),
                          shares |-> Count(item, "share_count"),
                          collects |-> Count(item, "collected_count")],
          tags |-> TagList(item),
          raw |-> item]
    ELSE IF platform = "dy" \/ platform = "douyin"
    THEN [id |-> Get(item, "aweme_id", <<>>),
          platform |-> "dy",
          type |-> IF Get(item, "aweme_type", <<>>) = <<"0">> THEN "video" ELSE "image",
          title |-> Get(item, "title", <<>>),
          content |-> TitleAndDesc(item),
          url |-> Get(item, "aweme_url", <<>>),
          created_at |-> Get(item, "create_time", 0),
          author |-> [id |-> Get(item, "user_id", <<>>),
                      name |-> Get(item, "nickname", <<>>),
                      avatar |-> Get(item, "avatar", <<>>)],
          engagement |-> [likes |-> Count(item, "liked_count"),
                          comments |-> Count(item, "comment_count"),
                          shares |-> Count(item, "share_count"),
                          collects |-> Count(item, "collected_count")],
          tags |-> <<>>,
          raw |-> item]
    ELSE IF platform = "bili"
    THEN [id |-> Get(item, "video_id", <<>>),
          platform |-> "bili",
          type |-> Get(item, "video_type", "video"),
          title |-> Get(item, "title", <<>>),
          content |-> TitleAndDesc(item),
          url |-> Get(item, "video_url", <<>>),
          created_at |-> Get(item, "create_time", 0),
          author |-> [id |-> Get(item, "user_id", <<>>),
                      name |-> Get(item, "nickname", <<>>),
                      avatar |-> <<>>],
          engagement |-> [likes |-> Count(item, "liked_count"),
                          views |-> Count(item, "video_play_count"),
                          favorites |-> Count(item, "video_favorite_count"),
                          shares |-> Count(item, "video_share_count"),
                          comments |-> Count(item, "video_comment")],
          tags |-> <<>>,
          raw |-> item]
    ELSE [id |-> Get(item, "mblog_id", <<>>),
          platform |-> "wb",
          type |-> "post",
          title |-> <<>>,
          content |-> WbContent(item),
          url |-> Get(item, "mblog_url", <<>>),
          created_at |-> Get(item, "mblog_created_at", 0),
          author |-> [id |-> Get(item, "user_id", <<>>),
                      name |-> Get(item, "nickname", <<>>),
                      avatar |-> Get(item, "avatar", <<>>)],
          engagement |-> [likes |-> Count(item, "attitudes_count"),
                          comments |-> Count(item, "comments_count"),
                          shares |-> Count(item, "reposts_count")],
          tags |-> <<>>,
          raw |-> item]

\* mutant: an error in one record loses the records normalized before it
OnRecordError_reset(normalized) == <<>>

\* lines 152-154: the error is printed and the loop continues
OnRecordError(normalized) == normalized

\* the try block of lines 46-150 leaves through the except clause
RecordFails(item, platform) == MappingRaises(item, platform)

\* the loop of lines 45-154 over raw_data[1..n]
RECURSIVE NormalizeLoop(_, _, _)
NormalizeLoop(raw_data, n, platform) ==
    IF n = 0 THEN <<>>
    ELSE LET normalized == NormalizeLoop(raw_data, n - 1, platform)
             item == raw_data[n]
         IN  IF platform \notin {"xhs", "dy", "douyin", "bili", "wb"} THEN normalized
             ELSE IF RecordFails(item, platform) THEN OnRecordError(normalized)
             ELSE IF NormalizedItem(item, platform).content = <<>> THEN normalized
             ELSE Append(normalized, NormalizedItem(item, platform))

normalize_platform_data(raw_data, platform) ==
    NormalizeLoop(raw_data, Len(raw_data), platform)


\* the values a field of a raw record takes
FieldValues(key) ==
    IF key = "title" THEN {<<" ">>, <<"a">>}
    ELSE IF key = "desc" THEN {<<>>, <<"b">>}
    ELSE IF key = "mblog_text" THEN {<<>>, <<" ">>, <<"a">>}
    ELSE IF key = "tag_list" THEN {<<"t", ",", "t">>}
    ELSE {<<>>, <<"5">>, <<"x">>}

\* the fields a raw record of a platform may carry
FieldKeys(platform) ==
    IF platform = "xhs" THEN {"title", "desc", "liked_count", "tag_list"}
    ELSE IF platform = "wb" THEN {"mblog_text", "attitudes_count"}
    ELSE IF platform = "tiktok" THEN {"title"}
    ELSE {"title", "desc", "liked_count"}

\* raw records: any subset of the fields present, each with one of its values
RawRecords(platform) ==
    UNION {{r \in [ks -> UNION {FieldValues(k) : k \in ks}] :
               \A k \in ks : r[k] \in FieldValues(k)} :
           ks \in SUBSET FieldKeys(platform)}

InitNormalize ==
    /\ pc = "ready"
    /\ text = <<>>
    /\ config = <<>>
    /\ \E platform \in PlatformIds :
          /\ args = [platform |-> platform]
          /\ \E n \in 0..MaxBatch : items \in [1..n -> RawRecords(platform)]
    /\ result = <<>>
    /\ local = <<>>
    /\ now = 0
    /\ prev = <<>>

\* one call normalize_platform_data(items, args.platform)
CallNormalizePlatformData ==
    /\ pc = "ready"
    /\ result' = normalize_platform_data(items, args.platform)
    /\ pc' = "done"
    /\ UNCHANGED <<text, config, items, orchestrator>>

NextNormalize == CallNormalizePlatformData

SpecNormalize == InitNormalize /\ [][NextNormalize]_vars

\* record i carries a count that is a non-empty string with a non-digit in it
BadCount(i) ==
    \E key \in DOMAIN items[i] \cap CountKeys(args.platform) :
        /\ items[i][key] # <<>>
        /\ \E j \in DOMAIN items[i][key] : ~IsDigit(items[i][key][j])

\* the body text the normalization derives from record i
BodyOf(i) ==
    IF args.platform = "wb" THEN Get(items[i], "mblog_text", <<>>)
    ELSE TitleAndDesc(items[i])

\* the records that map without error and have a non-empty body text, in order
Survivors ==
    IF args.platform = "tiktok" THEN <<>>
    ELSE SelectSeq([i \in DOMAIN items |-> i],
                   LAMBDA i : ~BadCount(i) /\ BodyOf(i) # <<>>)

\* C16: the output of normalize_platform_data is exactly, in input order, the
\* items of the records that map without error and have a non-empty body
\* text; a record that fails changes the item of no other record (each item is
\* the one its record gives when normalized alone) and never aborts the batch.
C16_BadRecordSkipped ==
    pc = "done" =>
        /\ Len(result) = Len(Survivors)
        /\ \A k \in DOMAIN result :
              result[k] = normalize_platform_data(<<items[Survivors[k]]>>, args.platform)[1]

\* a record that maps is followed by one whose count is not a number
C16_Witness ==
    /\ pc = "done"
    /\ Len(items) = 2
    /\ BadCount(2)
    /\ Survivors = <<1>>
    /\ Len(result) = 1


\* the raw field whose count becomes the likes metric
LikesKey == IF args.platform = "wb" THEN "attitudes_count" ELSE "liked_count"

\* record i carries a likes count that is a non-empty string with a non-digit
BadLikes(i) ==
    /\ LikesKey \in DOMAIN items[i]
    /\ items[i][LikesKey] # <<>>
    /\ \E j \in DOMAIN items[i][LikesKey] : ~IsDigit(items[i][LikesKey][j])

\* C17: a record of a known platform with non-empty body text is an item of
\* the output whatever its likes count holds: with likes 0 when the count is a
\* non-numeric string, and with likes 0 when the count is missing or empty.
C17_NonNumericCountIsZero ==
    pc = "done" =>
        \A i \in DOMAIN items :
            (/\ args.platform # "tiktok"
             /\ BodyOf(i) # <<>>
             /\ \/ BadLikes(i)
                \/ LikesKey \notin DOMAIN items[i]
                \/ items[i][LikesKey] = <<>>)
            => \E k \in DOMAIN result :
                   /\ result[k].raw = items[i]
                   /\ result[k].engagement.likes = 0

\* C18: no item of the output has an empty body text, the body text being the
\* trimmed text derived from the record.
C18_NoEmptyBody ==
    pc = "done" => \A k \in DOMAIN result : Strip(result[k].content) # <<>>

----------------------------------------------------------------------------
(* analyze_all_data: the configuration and the data source *)

\* most raw records of one platform batch
MaxPosts == 1

\* most comments mapped to one content id
MaxComments == 1

\* most rows the data source holds for one platform
MaxRows == 1

\* latest reading of the wall clock
MaxClock == 1

\* a complete configuration (config.json); a dict that is iterated is the
\* list of its entries in insertion order
BaseConfig ==
    [sentiment_keywords |-> [positive |-> << <<"a">> >>, negative |-> << <<"b">> >>],
     positive_override_keywords |-> << <<"o">> >>,
     risk_keywords |-> << <<"b">> >>,
     thresholds |-> [risk_priority_high_keywords |-> << <<"b">> >>],
     competitor_keywords |-> <<[org |-> "o1", keywords |-> << <<"a">> >>]>>,
     platforms |-> <<"douyin", "wb">>,
     data_source |-> "supabase",
     supabase |-> [url |-> <<"u">>, key |-> <<"k">>]]

\* the dict d without the key
Without(d, key) == [k \in DOMAIN d \ {key} |-> d[k]]

\* the configuration as classify_sentiment reads it (lines 166-168)
SentimentConfig(cfg) ==
    [positive |-> cfg.sentiment_keywords.positive,
     negative |-> cfg.sentiment_keywords.negative,
     override |-> Get(cfg, "positive_override_keywords", <<>>)]

\* the configuration as detect_risks reads it (lines 214-216)
RiskConfig(cfg) ==
    [risk |-> cfg.risk_keywords,
     high |-> cfg.thresholds.risk_priority_high_keywords,
     override |-> Get(cfg, "positive_override_keywords", <<>>)]

\* str(n) of an integer n >= 0
RECURSIVE StrOf(_)
StrOf(n) ==
    IF n < 10 THEN <<DigitChars[n + 1]>>
    ELSE Append(StrOf(n \div 10), DigitChars[(n % 10) + 1])

\* datetime.fromtimestamp(ts).date() with ts in seconds or milliseconds as in
\* lines 84-87, a date being its number of days since the epoch (the local
\* time zone is UTC); pub_time < 10000000000 is written with quotients
DateOf(pub_time) ==
    (IF pub_time \div 100000 < 100000 THEN pub_time ELSE pub_time \div 1000) \div 86400

\* rows of the contents table
SourceRows ==
    {[content_id |-> <<"1">>, description |-> <<"b">>, publish_time |-> 86400,
      liked_count |-> 5],
     [content_id |-> <<"2">>, description |-> <<"a">>, publish_time |-> 0,
      liked_count |-> 0]}

\* what query.execute() does for one platform: it raises, or it returns rows
QueryOutcomes ==
    {[failed |-> TRUE, rows |-> <<>>]} \cup
    {[failed |-> FALSE, rows |-> r] : r \in SeqsUpTo(SourceRows, MaxRows)}

\* the data source: whether the supabase package imports (lines 17-22), and
\* the outcome of the query of each platform (the contents table holds rows
\* of wb only)
Sources ==
    {[available |-> FALSE, tables |-> <<>>]} \cup
    {[available |-> TRUE,
      tables |-> [p \in {"xhs", "douyin", "bili", "wb"} |->
                     IF p = "wb" THEN w ELSE [failed |-> FALSE, rows |-> <<>>]]] :
        w \in QueryOutcomes}

\* supabase_client.py lines 54-97: the rows of the target date, [] when the
\* query raised
get_contents_by_date(outcome, target_date) ==
    IF outcome.failed THEN <<>>
    ELSE SelectSeq(outcome.rows,
                   LAMBDA item : /\ Get(item, "publish_time", 0) # 0
                                 /\ DateOf(item.publish_time) = target_date)

\* one converted_item of supabase_client.py lines 198-264
LegacyItem(item, platform) ==
    IF platform = "xhs"
    THEN [note_id |-> Get(item, "content_id", "None"),
          type |-> Get(item, "content_type", "normal"),
          title |-> Get(item, "title", <<>>),
          desc |-> Get(item, "description", <<>>),
          note_url |-> Get(item, "content_url", <<>>),
          time |-> Get(item, "publish_time", 0) * 1000,
          user_id |-> Get(item, "user_id", <<>>),
          nickname |-> Get(item, "nickname", <<>>),
          avatar |-> Get(item, "avatar", <<>>),
          liked_count |-> StrOf(Get(item, "liked_count", 0)),
          comment_count |-> StrOf(Get(item, "comment_count", 0)),
          share_count |-> StrOf(Get(item, "share_count", 0)),
          collected_count |-> StrOf(Get(item, "collected_count", 0)),
          tag_list |-> <<>>,
          ip_location |-> Get(item, "ip_location", <<>>),
          source_keyword |-> Get(item, "source_keyword", <<>>)]
    ELSE IF platform = "dy" \/ platform = "douyin"
    THEN [aweme_id |-> Get(item, "content_id", "None"),
          aweme_type |-> IF Get(item, "content_type", "None") = "video"
                         THEN <<"0">> ELSE <<"1">>,
          title |-> Get(item, "title", <<>>),
          desc |-> Get(item, "description", <<>>),
          aweme_url |-> Get(item, "content_url", <<>>),
          create_time |-> Get(item, "publish_time", 0),
          user_id |-> Get(item, "user_id", <<>>),
          nickname |-> Get(item, "nickname", <<>>),
          avatar |-> Get(item, "avatar", <<>>),
          liked_count |-> StrOf(Get(item, "liked_count", 0)),
          comment_count |-> StrOf(Get(item, "comment_count", 0)),
          share_count |-> StrOf(Get(item, "share_count", 0)),
          collected_count |-> StrOf(Get(item, "collected_count", 0))]
    ELSE IF platform = "bili"
    THEN [video_id |-> Get(item, "content_id", "None"),
          video_type |-> Get(item, "content_type", "video"),
          title |-> Get(item, "title", <<>>),
          desc |-> Get(item, "description", <<>>),
          video_url |-> Get(item, "content_url", <<>>),
          create_time |-> Get(item, "publish_time", 0),
          user_id |-> Get(item, "user_id", <<>>),
          nickname |-> Get(item, "nickname", <<>>),
          liked_count |-> StrOf(Get(item, "liked_count", 0)),
          video_comment |-> StrOf(Get(item, "comment_count", 0)),
          video_share_count |-> StrOf(Get(item, "share_count", 0)),
          video_favorite_count |-> StrOf(Get(item, "collected_count", 0)),
          video_play_count |->
              StrOf(Get(Get(item, "platform_data", <<>>), "video_play_count", 0))]
    ELSE [mblog_id |-> Get(item, "content_id", "None"),
          mblog_text |-> Get(item, "description", <<>>),
          mblog_url |-> Get(item, "content_url", <<>>),
          mblog_created_at |-> Get(item, "publish_time", 0),
          user_id |-> Get(item, "user_id", <<>>),
          nickname |-> Get(item, "nickname", <<>>),
          avatar |-> Get(item, "avatar", <<>>),
          attitudes_count |-> StrOf(Get(item, "liked_count", 0)),
          comments_count |-> StrOf(Get(item, "comment_count", 0)),
          reposts_count |-> StrOf(Get(item, "share_count", 0))]

\* supabase_client.py lines 184-271
convert_to_legacy_format(its, platform) ==
    IF platform \in {"xhs", "dy", "douyin", "bili", "wb"}
    THEN [k \in DOMAIN its |-> LegacyItem(its[k], platform)]
    ELSE <<>>

\* SentimentSupabaseClient(config) raises ValueError (supabase_client.py
\* lines 19-24; SUPABASE_URL and SUPABASE_KEY are not set in the environment)
ClientRaises(cfg) ==
    LET supabase_config == Get(cfg, "supabase", <<>>)
    IN  \/ Get(supabase_config, "url", <<>>) = <<>>
        \/ Get(supabase_config, "key", <<>>) = <<>>

\* load_data_from_supabase: all_data as the list of its entries, or the
\* exception raised. target_date is the date a well-formed "%Y-%m-%d" string
\* denotes.
load_data_from_supabase(cfg, target_date, source) ==
    IF ~source.available THEN [raised |-> "ImportError"]
    ELSE IF ClientRaises(cfg) THEN [raised |-> "ValueError"]
    ELSE LET platforms == Get(cfg, "platforms", <<"xhs", "douyin", "bili", "wb">>)
         IN  [all_data |->
                 [k \in DOMAIN platforms |->
                     [platform |-> platforms[k],
                      raw_items |->
                          convert_to_legacy_format(
                              get_contents_by_date(source.tables[platforms[k]], target_date),
                              platforms[k])]]]


----------------------------------------------------------------------------
(* analyze_all_data: the steps of the call *)

\* an optional argument is <<>> when it is None and <<v>> when it is v
IsNone(arg) == arg = <<>>

\* lines 533-536 over the entries 1..n of all_data
RECURSIVE NormalizeAll(_, _)
NormalizeAll(all_data, n) ==
    IF n = 0 THEN <<>>
    ELSE NormalizeAll(all_data, n - 1) \o
         normalize_platform_data(all_data[n].raw_items, all_data[n].platform)

\* mutant: the competitor is not attached in the classification loop
ClassifiedItem_no_competitor(item, cfg) ==
    [sentiment |-> classify_sentiment(item.content, SentimentConfig(cfg))] @@ item

\* lines 540-546: the item with its sentiment and competitor set
ClassifiedItem(item, cfg) ==
    [sentiment |-> classify_sentiment(item.content, SentimentConfig(cfg)),
     competitor |-> classify_competitor(item.content, cfg)] @@ item

\* mutant: a comment is classified without the override keywords
CommentSentiment_no_override(comment_text, cfg) ==
    classify_sentiment(comment_text, [SentimentConfig(cfg) EXCEPT !.override = <<>>])

\* line 570
CommentSentiment(comment_text, cfg) ==
    classify_sentiment(comment_text, SentimentConfig(cfg))

\* lines 568-571: the comment after the loop body, its sentiment set when its
\* content is not empty
MarkedComment(comment, cfg) ==
    LET comment_text == Get(comment, "content", <<>>)
    IN  IF comment_text = <<>> THEN comment
        ELSE LET s == CommentSentiment(comment_text, cfg)
             IN  [sentiment |-> [label |-> s.label, score |-> s.score]] @@
                 Without(comment, "sentiment")

\* the labels of the comments of a list that line 570 classifies, in order
CommentLabels(item_comments, cfg) ==
    LET classified == SelectSeq(item_comments,
                                LAMBDA c : Get(c, "content", <<>>) # <<>>)
    IN  [k \in DOMAIN classified |->
            CommentSentiment(classified[k].content, cfg).label]

\* the number of times label occurs in labels
CountLabel(labels, label) == Cardinality({k \in DOMAIN labels : labels[k] = label})

\* lines 579-589: the high risk entries of the comments of one item
HighRiskComments(item_id, item_comments, cfg) ==
    LET risky == SelectSeq(item_comments,
                     LAMBDA c :
                         /\ Get(c, "content", <<>>) # <<>>
                         /\ CommentSentiment(c.content, cfg).label = "negative"
                         /\ MatchedIn(Get(cfg, "risk_keywords", <<>>), c.content) # <<>>)
    IN  [k \in DOMAIN risky |->
            [content |-> risky[k].content,
             keywords |-> MatchedIn(Get(cfg, "risk_keywords", <<>>), risky[k].content),
             parent_content_id |-> item_id,
             author |-> Get(risky[k], "nickname", "Unknown"),
             engagement |-> Get(risky[k], "like_count", 0)]]

\* lines 559-592 for one item: the item with its comments attached
ItemWithComments(item, comments_data, cfg) ==
    LET item_comments == Get(comments_data, item.id, <<>>)
        labels == CommentLabels(item_comments, cfg)
    IN  [comments |-> [k \in DOMAIN item_comments |-> MarkedComment(item_comments[k], cfg)],
         comment_sentiment_dist |-> [l \in Labels |-> CountLabel(labels, l)]] @@ item

\* comments_data after the loop of lines 557-592: the comments under the id
\* of an item carry their sentiment
MarkedComments(its, comments_data, cfg) ==
    [id \in DOMAIN comments_data |->
        IF \E i \in DOMAIN its : its[i].id = id
        THEN [k \in DOMAIN comments_data[id] |-> MarkedComment(comments_data[id][k], cfg)]
        ELSE comments_data[id]]

\* comments_analysis after the items 1..n went through lines 557-592
RECURSIVE CommentsAnalysis(_, _, _, _)
CommentsAnalysis(its, n, comments_data, cfg) ==
    IF n = 0
    THEN [total_comments |-> 0,
          comments_sentiment |-> [l \in Labels |-> 0],
          high_risk_comments |-> <<>>]
    ELSE LET before == CommentsAnalysis(its, n - 1, comments_data, cfg)
             item_comments == Get(comments_data, its[n].id, <<>>)
             labels == CommentLabels(item_comments, cfg)
         IN  [total_comments |-> before.total_comments + Len(labels),
              comments_sentiment |->
                  [l \in Labels |-> before.comments_sentiment[l] + CountLabel(labels, l)],
              high_risk_comments |->
                  before.high_risk_comments \o
                  HighRiskComments(its[n].id, item_comments, cfg)]


\* x placed into the list s, sorted by total engagement descending, after
\* every element whose total engagement is not smaller
RECURSIVE PostInsert(_, _)
PostInsert(s, x) ==
    IF s = <<>> THEN <<x>>
    ELSE IF SumValues(x.engagement) > SumValues(s[Len(s)].engagement)
         THEN Append(PostInsert(SubSeq(s, 1, Len(s) - 1), x), s[Len(s)])
         ELSE Append(s, x)

\* sorted(platform_items, key=total engagement, reverse=True) of lines 426-430
RECURSIVE PostSort(_)
PostSort(s) ==
    IF s = <<>> THEN <<>>
    ELSE PostInsert(PostSort(SubSeq(s, 1, Len(s) - 1)), s[Len(s)])

analyze_platform_data(platform_items) ==
    IF platform_items = <<>>
    THEN [total_items |-> 0,
          sentiment_dist |-> <<>>,
          avg_engagement |-> 0,
          top_posts |-> <<>>,
          topics |-> <<>>]
    ELSE [platform |-> platform_items[1].platform,
          total_items |-> Len(platform_items),
          sentiment_dist |-> CounterOf(ItemLabels(platform_items)),
          avg_engagement |->
              Round1(EngagementSum(platform_items, Len(platform_items)),
                     Len(platform_items)),
          top_posts |-> Take(PostSort(platform_items), 5),
          topics |-> Take(extract_trending_topics(platform_items), 5)]

\* lines 601-604: platform_analysis as the list of its entries
PlatformAnalysis(its, cfg) ==
    [k \in DOMAIN cfg.platforms |->
        [platform |-> cfg.platforms[k],
         analysis |->
             analyze_platform_data(
                 SelectSeq(its, LAMBDA item : item.platform = cfg.platforms[k]))]]

\* mutant: the label is the date of the analysis
DataDateLabel_today(its) == <<now>>

\* lines 607-621: data_date_label as the list of the dates it names, none for
\* the label of undated data
DataDateLabel(its) ==
    LET dates == {DateOf(its[i].created_at) :
                     i \in {j \in DOMAIN its : its[j].created_at > 0}}
        date_min == CHOOSE d \in dates : \A e \in dates : d <= e
        date_max == CHOOSE d \in dates : \A e \in dates : e <= d
    IN  IF dates = {} THEN <<>>
        ELSE IF date_min # date_max THEN <<date_min, date_max>>
        ELSE <<date_min>>

\* lines 624-637: competitor_analysis as the list of its entries
CompetitorAnalysis(its, cfg) ==
    LET competitor_keywords == CompetitorKeywords(cfg)
        OrgItems(org) == SelectSeq(its, LAMBDA item : item.competitor = org)
        with_items == SelectSeq(competitor_keywords,
                                LAMBDA e : OrgItems(e.org) # <<>>)
    IN  [k \in DOMAIN with_items |->
            LET org_items == OrgItems(with_items[k].org)
                org_sentiment == CounterOf(ItemLabels(org_items))
                org_total == Len(org_items)
            IN  [org |-> with_items[k].org,
                 total |-> org_total,
                 sentiment_dist |-> org_sentiment,
                 sentiment_pct |->
                     [l \in DOMAIN org_sentiment |->
                         Round1(org_sentiment[l] * 100, org_total)],
                 avg_engagement |->
                     Round1(EngagementSum(org_items, org_total), org_total),
                 items |-> org_items]]

\* lines 595-653: the value analyze_all_data returns, or the KeyError of
\* detect_risks (lines 214-215) or of line 602
AnalysisResult(its, cfg, all_data, comments_analysis, clock) ==
    IF "risk_keywords" \notin DOMAIN cfg \/ "thresholds" \notin DOMAIN cfg
    THEN [raised |-> "KeyError"]
    ELSE IF "platforms" \notin DOMAIN cfg
    THEN [raised |-> "KeyError"]
    ELSE [metadata |-> [analysis_date |-> clock,
                        total_platforms |-> Len(all_data),
                        data_date |-> DataDateLabel(its)],
          metrics |-> aggregate_metrics(its),
          risks |-> detect_risks(its, RiskConfig(cfg)),
          topics |-> Take(extract_trending_topics(its), 10),
          kols |-> identify_kols(its),
          platform_analysis |-> PlatformAnalysis(its, cfg),
          all_items |-> its,
          comments_analysis |-> comments_analysis,
          competitor_analysis |-> CompetitorAnalysis(its, cfg)]


----------------------------------------------------------------------------
(* analyze_all_data: the calls *)

\* raw records of a platform batch
PostRecords(platform) ==
    IF platform = "wb"
    THEN {[mblog_id |-> <<"1">>, mblog_text |-> <<"b">>],
          [mblog_id |-> <<"2">>, mblog_text |-> <<"a">>, attitudes_count |-> <<"x">>],
          [mblog_text |-> <<" ">>]}
    ELSE {[aweme_id |-> <<"1">>, title |-> <<"a">>, liked_count |-> <<"5">>]}

\* one entry of all_data
Batches(platform) ==
    {[platform |-> platform, raw_items |-> r] :
        r \in SeqsUpTo(PostRecords(platform), MaxPosts)}

\* all_data: no platform, wb, or douyin and wb, in the order of the dict
AllDatas ==
    {<<>>} \cup {<<w>> : w \in Batches("wb")}
           \cup {<<d, w>> : d \in Batches("douyin"), w \in Batches("wb")}

\* comment records
CommentRecords ==
    {[content |-> <<"b">>], [content |-> <<"b", "o">>], [content |-> <<>>]}

\* comments_data: the empty dict, or comments under the content id "1"
CommentsDatas ==
    {<<>>} \cup {[id \in {<<"1">>} |-> cs] : cs \in SeqsUpTo(CommentRecords, MaxComments)}

\* the data source of a call that is given all_data and never loads
NoSource == [available |-> FALSE, tables |-> <<>>]

\* the arguments of analyze_all_data next to config, and the data source
CallArgs ==
    {[all_data |-> <<ad>>, target_date |-> td, comments_data |-> cd, source |-> NoSource] :
        ad \in AllDatas, td \in {<<>>, <<1>>},
        cd \in {<<>>} \cup {<<c>> : c \in CommentsDatas}}
    \cup
    {[all_data |-> <<>>, target_date |-> td, comments_data |-> cd, source |-> s] :
        td \in {<<>>, <<1>>}, cd \in {<<>>} \cup {<<c>> : c \in CommentsDatas},
        s \in Sources}

InitAnalyze ==
    /\ pc = "ready"
    /\ text = <<>>
    /\ config \in {BaseConfig, Without(BaseConfig, "data_source")}
    /\ items = <<>>
    /\ result = <<>>
    /\ args \in CallArgs
    /\ local = <<>>
    /\ now = 0
    /\ prev = <<>>

\* mutant: a target date takes precedence over the data that is given
LoadedData_date_first ==
    IF IsNone(args.target_date) /\ ~IsNone(args.all_data)
    THEN [all_data |-> args.all_data[1]]
    ELSE IF IsNone(args.target_date) THEN [raised |-> "ValueError"]
    ELSE load_data_from_supabase(config, args.target_date[1], args.source)

\* lines 518-526: all_data as given or as loaded, or the exception raised
LoadedData ==
    IF ~IsNone(args.all_data) THEN [all_data |-> args.all_data[1]]
    ELSE IF Get(config, "data_source", "local") = "supabase"
    THEN IF IsNone(args.target_date) THEN [raised |-> "ValueError"]
         ELSE load_data_from_supabase(config, args.target_date[1], args.source)
    ELSE [raised |-> "ValueError"]

\* analyze_all_data(all_data, config, target_date, comments_data) is called
\* and runs lines 514-536: the input mode is settled and the batches are
\* normalized
CallAnalyzeAllData ==
    /\ pc = "ready"
    /\ IF "raised" \in DOMAIN LoadedData
       THEN /\ result' = LoadedData
            /\ pc' = "done"
            /\ UNCHANGED <<items, local>>
       ELSE /\ local' = [all_data |-> LoadedData.all_data]
            /\ items' = NormalizeAll(LoadedData.all_data, Len(LoadedData.all_data))
            /\ pc' = "classify"
            /\ UNCHANGED result
    /\ UNCHANGED <<text, config, args, now, prev>>

\* lines 539-546: every item gets its sentiment and its competitor;
\* classify_sentiment raises KeyError at line 166 without sentiment_keywords
ClassifyItems ==
    /\ pc = "classify"
    /\ IF items # <<>> /\ "sentiment_keywords" \notin DOMAIN config
       THEN /\ result' = [raised |-> "KeyError"]
            /\ pc' = "done"
            /\ UNCHANGED items
       ELSE /\ items' = [k \in DOMAIN items |-> ClassifiedItem(items[k], config)]
            /\ pc' = "comments"
            /\ UNCHANGED result
    /\ UNCHANGED <<text, config, args, local, now, prev>>

\* lines 529-530 and 549-592: the comments are attached to the items and
\* classified, the comment dicts of comments_data get their sentiment
CorrelateComments ==
    /\ pc = "comments"
    /\ LET comments_data ==
               IF IsNone(args.comments_data) THEN <<>> ELSE args.comments_data[1]
       IN  IF DOMAIN comments_data = {}
           THEN /\ local' = [comments_analysis |->
                                CommentsAnalysis(items, 0, comments_data, config)] @@ local
                /\ UNCHANGED <<items, args>>
           ELSE /\ local' = [comments_analysis |->
                                CommentsAnalysis(items, Len(items), comments_data, config)]
                            @@ local
                /\ items' = [k \in DOMAIN items |->
                                ItemWithComments(items[k], comments_data, config)]
                /\ args' = [args EXCEPT
                              !.comments_data = <<MarkedComments(items, comments_data, config)>>]
    /\ pc' = "analyze"
    /\ UNCHANGED <<text, config, result, now, prev>>

\* lines 595-653: the aggregates are computed, the clock is read and the
\* result is returned
AnalyzeAndReturn ==
    /\ pc = "analyze"
    /\ result' = AnalysisResult(items, config, local.all_data, local.comments_analysis, now)
    /\ pc' = "done"
    /\ UNCHANGED <<text, config, items, args, local, now, prev>>

\* the caller keeps the value returned and calls again with the same objects
CallAgain ==
    /\ pc = "done"
    /\ prev = <<>>
    /\ prev' = <<result>>
    /\ pc' = "ready"
    /\ items' = <<>>
    /\ result' = <<>>
    /\ local' = <<>>
    /\ UNCHANGED <<text, config, args, now>>

\* a second passes
Tick ==
    /\ now < MaxClock
    /\ now' = now + 1
    /\ UNCHANGED <<pc, text, config, items, result, args, local, prev>>

NextAnalyze ==
    \/ CallAnalyzeAllData
    \/ ClassifyItems
    \/ CorrelateComments
    \/ AnalyzeAndReturn
    \/ CallAgain
    \/ Tick

SpecAnalyze == InitAnalyze /\ [][NextAnalyze]_vars


\* the second call has returned; prev holds what the first call returned
TwoCallsDone == pc = "done" /\ prev # <<>>

\* the value returned with the analysis date left out
WithoutAnalysisDate(r) ==
    IF "metadata" \in DOMAIN r THEN [r EXCEPT !.metadata.analysis_date = 0] ELSE r

\* C11 as stated: two calls of analyze_all_data with the same raw input, the
\* same configuration and the same comments input return the same value in
\* every field, the metadata included.
C11_IdenticalResults == TwoCallsDone => result = prev[1]

\* C11 amended: the two calls raise the same error or return values that are
\* the same in every field except metadata.analysis_date, which is the
\* reading of the wall clock at the return of the call.
C11_IdenticalButAnalysisDate ==
    TwoCallsDone => WithoutAnalysisDate(result) = WithoutAnalysisDate(prev[1])

\* two calls returned items; a second passed between the two returns
C11_Witness ==
    /\ TwoCallsDone
    /\ "metadata" \in DOMAIN result
    /\ result.all_items # <<>>
    /\ result.metadata.analysis_date # prev[1].metadata.analysis_date


\* C13 as stated: a call with neither all_data nor a target date raises an
\* error, and so does a call with both.
C13_ExactlyOneMode ==
    pc = "done" =>
        /\ (IsNone(args.all_data) /\ IsNone(args.target_date))
               => result = [raised |-> "ValueError"]
        /\ (~IsNone(args.all_data) /\ ~IsNone(args.target_date))
               => "raised" \in DOMAIN result

\* C13 amended: a call with neither all_data nor a target date raises
\* ValueError; a call that is given all_data is not rejected, with or without
\* a target date: it returns the analysis of the given batches (one platform
\* per batch, the items of the given raw records) and the target date is not
\* used.
C13_GivenDataWins ==
    pc = "done" =>
        /\ (IsNone(args.all_data) /\ IsNone(args.target_date))
               => result = [raised |-> "ValueError"]
        /\ ~IsNone(args.all_data)
               => /\ "metadata" \in DOMAIN result
                  /\ result.metadata.total_platforms = Len(args.all_data[1])
                  /\ [k \in DOMAIN result.all_items |-> result.all_items[k].raw]
                        = [k \in DOMAIN NormalizeAll(args.all_data[1], Len(args.all_data[1])) |->
                              NormalizeAll(args.all_data[1], Len(args.all_data[1]))[k].raw]

\* a call with both all_data and a target date returned items
C13_Witness ==
    /\ pc = "done"
    /\ ~IsNone(args.all_data)
    /\ ~IsNone(args.target_date)
    /\ "metadata" \in DOMAIN result
    /\ result.all_items # <<>>


\* the call loads from the data source and the query of a platform fails
QueryFailed ==
    /\ IsNone(args.all_data)
    /\ ~IsNone(args.target_date)
    /\ Get(config, "data_source", "local") = "supabase"
    /\ args.source.available
    /\ \E k \in DOMAIN config.platforms : args.source.tables[config.platforms[k]].failed

\* C14: when analyze_all_data loads from the data source and the query of a
\* platform fails, the call raises an error; it returns no analysis result.
C14_QueryFailureRaises ==
    (pc = "done" /\ QueryFailed) => "raised" \in DOMAIN result


----------------------------------------------------------------------------
(* analyze_all_data with an incomplete configuration *)

\* the keys of the configuration the analysis reads
ConfigKeys ==
    {"sentiment_keywords", "positive_override_keywords", "risk_keywords",
     "thresholds", "competitor_keywords", "platforms"}

\* the complete configuration, or the configuration with one key missing;
\* the call is given all_data
InitConfigKeys ==
    /\ pc = "ready"
    /\ text = <<>>
    /\ config \in {BaseConfig} \cup {Without(BaseConfig, key) : key \in ConfigKeys}
    /\ items = <<>>
    /\ result = <<>>
    /\ args \in {a \in CallArgs : ~IsNone(a.all_data) /\ IsNone(a.target_date)}
    /\ local = <<>>
    /\ now = 0
    /\ prev = <<>>

SpecConfigKeys == InitConfigKeys /\ [][NextAnalyze]_vars

\* C15: with a configuration that lacks one of its required keys the call
\* fails with an error, whatever the input; no missing key is replaced by a
\* default.
C15_MissingKeyFails ==
    (pc = "done" /\ ConfigKeys \ DOMAIN config # {}) => "raised" \in DOMAIN result


\* the comments of the returned items that carry a sentiment
ClassifiedComments ==
    IF "metadata" \notin DOMAIN result THEN {}
    ELSE UNION {{result.all_items[i].comments[k] :
                    k \in {j \in DOMAIN result.all_items[i].comments :
                              "sentiment" \in DOMAIN result.all_items[i].comments[j]}} :
                i \in {j \in DOMAIN result.all_items :
                          "comments" \in DOMAIN result.all_items[j]}}

\* the comment text has more negative than positive keywords
MoreNegative(c) ==
    CountIn(config.sentiment_keywords.negative, c.content)
        > CountIn(config.sentiment_keywords.positive, c.content)

\* the comment text has an override keyword
HasOverride(c) == AnyIn(config.positive_override_keywords, c.content)

\* C20 as stated: comments are classified without override suppression, a
\* comment with more negative than positive keywords is labeled negative
\* even when it has an override keyword.
C20_CommentsNotSuppressed ==
    pc = "done" =>
        \A c \in ClassifiedComments : MoreNegative(c) => c.sentiment.label = "negative"

\* C20 amended: comments are classified with the override suppression of
\* classify_sentiment: a comment with an override keyword is never labeled
\* negative, and a comment without one is labeled negative when it has more
\* negative than positive keywords.
C20_CommentsSuppressed ==
    pc = "done" =>
        \A c \in ClassifiedComments :
            /\ HasOverride(c) => c.sentiment.label # "negative"
            /\ (~HasOverride(c) /\ MoreNegative(c)) => c.sentiment.label = "negative"

\* a returned item has a comment with a negative and an override keyword
C20_Witness ==
    /\ pc = "done"
    /\ \E c \in ClassifiedComments :
          /\ HasOverride(c)
          /\ MoreNegative(c)
          /\ c.sentiment.label = "neutral"


\* the call returned a result (it did not raise)
Returned == pc = "done" /\ "metadata" \in DOMAIN result

\* the comments input as the call sees it: the empty dict when it is None
CommentsInput == IF IsNone(args.comments_data) THEN <<>> ELSE args.comments_data[1]

\* C21: every item of the returned collection has a comments field, the list
\* of the comment records mapped to its id in the comments input or the empty
\* list, also when the comments input is None or the empty dict.
C21_EveryItemHasComments ==
    Returned =>
        \A i \in DOMAIN result.all_items :
            /\ "comments" \in DOMAIN result.all_items[i]
            /\ result.all_items[i].comments = Get(CommentsInput, result.all_items[i].id, <<>>)


\* the items of a collection that carry the field
HaveField(its, field) == {i \in DOMAIN its : field \in DOMAIN its[i]}

\* C22: when the classification starts the collection holds the normalized
\* items of all batches and none is classified; when the comment correlation
\* starts, and when the aggregates are computed, every item has its sentiment
\* and its competitor, and no comments are attached before the correlation;
\* the returned collection holds every normalized item, classified.
C22_Sequencing ==
    /\ pc = "classify" =>
          /\ items = NormalizeAll(local.all_data, Len(local.all_data))
          /\ HaveField(items, "sentiment") = {}
          /\ HaveField(items, "competitor") = {}
    /\ pc = "comments" =>
          /\ HaveField(items, "sentiment") = DOMAIN items
          /\ HaveField(items, "competitor") = DOMAIN items
          /\ HaveField(items, "comments") = {}
    /\ pc = "analyze" =>
          /\ HaveField(items, "sentiment") = DOMAIN items
          /\ HaveField(items, "competitor") = DOMAIN items
    /\ Returned =>
          /\ result.all_items = items
          /\ HaveField(items, "sentiment") = DOMAIN items
          /\ HaveField(items, "competitor") = DOMAIN items
          /\ Len(items) = Len(NormalizeAll(local.all_data, Len(local.all_data)))

\* the comment correlation is about to start on items of two platform batches
C22_Witness ==
    /\ pc = "comments"
    /\ Len(items) = 2
    /\ items[1].platform # items[2].platform
    /\ ~IsNone(args.comments_data)


\* every high priority keyword is one of the risk keywords
HighWithinRisk ==
    \A h \in DOMAIN config.high : \E k \in DOMAIN config.risk : config.risk[k] = config.high[h]

\* a high priority keyword is among the matched keywords of the entry
HighAmongMatched(entry) ==
    \E h \in DOMAIN config.high :
        \E k \in DOMAIN entry.keywords : entry.keywords[k] = config.high[h]

\* C23: with the high priority keywords a subset of the risk keywords, an
\* entry of detect_risks has severity high exactly when a high priority
\* keyword is among the risk keywords matched in the item's content, and
\* severity medium otherwise.
C23_SeverityHighIffMatched ==
    (pc = "done" /\ HighWithinRisk) =>
        \A k \in DOMAIN result :
            /\ result[k].severity \in {"high", "medium"}
            /\ result[k].severity = "high" <=> HighAmongMatched(result[k])

\* one of two risk keywords is high priority; an entry is high, another medium
C23_Witness ==
    /\ pc = "done"
    /\ HighWithinRisk
    /\ Len(config.risk) = 2
    /\ Len(config.high) = 1
    /\ \E j, k \in DOMAIN result :
          /\ result[j].severity = "high" /\ HighAmongMatched(result[j])
          /\ result[k].severity = "medium" /\ result[k].keywords # <<>>


\* the items identify_kols groups under an author id: those of that id with
\* a non-empty id and a non-empty name
Contributing(author_id) ==
    {i \in DOMAIN items : /\ items[i].author.id = author_id
                          /\ items[i].author.id # <<>>
                          /\ items[i].author.name # <<>>}

\* the author ids whose grouped items total above the threshold
AboveThreshold ==
    {a \in {items[i].author.id : i \in DOMAIN items} :
        Contributing(a) # {} /\ SumOver(ItemTotals, Contributing(a)) > 100}

\* the author ids of the returned entries
ReturnedAuthors == {result[k].id : k \in DOMAIN result}

\* C24: identify_kols groups only the items with a non-empty author id and
\* name; it returns at most 10 entries, one per author, in descending total
\* engagement, and they are the highest-engagement authors among those above
\* the threshold; an entry's post count is the length of its list of
\* contributing items and its total engagement is the sum of the engagement
\* metrics of those items.
C24_TopKols ==
    pc = "done" =>
        /\ Len(result) <= 10
        /\ Len(result) = Cardinality(ReturnedAuthors)
        /\ ReturnedAuthors \subseteq AboveThreshold
        /\ Len(result) < 10 => ReturnedAuthors = AboveThreshold
        /\ \A j, k \in DOMAIN result :
              j < k => result[j].total_engagement >= result[k].total_engagement
        /\ \A a \in AboveThreshold \ ReturnedAuthors : \A k \in DOMAIN result :
              result[k].total_engagement >= SumOver(ItemTotals, Contributing(a))
        /\ \A k \in DOMAIN result :
              LET e == result[k]
                  posts == {e.posts[j] : j \in DOMAIN e.posts}
              IN  /\ posts = Contributing(e.id)
                  /\ e.post_count = Len(e.posts)
                  /\ Len(e.posts) = Cardinality(posts)
                  /\ e.total_engagement = SumOver(ItemTotals, posts)

\* more than 10 authors are above the threshold, with different totals
C24_Witness ==
    /\ pc = "done"
    /\ Cardinality(AboveThreshold) > 10
    /\ Len(result) = 10
    /\ result[1].total_engagement > result[10].total_engagement

\* an entry of two contributing items
C24_WitnessGrouped ==
    /\ pc = "done"
    /\ \E k \in DOMAIN result : result[k].post_count = 2

\* an entry of one contributing item while another item of the same author
\* id has no author name
C24_WitnessSkipped ==
    /\ pc = "done"
    /\ \E k \in DOMAIN result :
          /\ result[k].post_count = 1
          /\ \E i \in DOMAIN items :
                items[i].author.id = result[k].id /\ items[i].author.name = <<>>


----------------------------------------------------------------------------
(* The topic lists of extract_trending_topics and analyze_platform_data. *)

\* number of distinct tags of the long item lists, above most_common(10)
MaxTopicTags == 11

\* items of one platform: short lists as in InitTopics, or one item for each
\* of MaxTopicTags tags that lists its tag once or twice
InitTopicsTop ==
    /\ pc = "ready"
    /\ text = <<>>
    /\ config = <<>>
    /\ \/ \E n \in 0..MaxTopicItems :
              items \in [1..n -> [tags : SeqsUpTo(TagNames, MaxTags),
                                  sentiment : [label : {"neutral"}],
                                  engagement : Engagements,
                                  platform : {"wb"}]]
       \/ \E twice \in [1..MaxTopicTags -> BOOLEAN] :
              items = [i \in 1..MaxTopicTags |->
                          LET tag == [k \in 1..i |-> "t"]
                          IN  [tags |-> IF twice[i] THEN <<tag, tag>> ELSE <<tag>>,
                               sentiment |-> [label |-> "neutral"],
                               engagement |-> [likes |-> 1, comments |-> 0],
                               platform |-> "wb"]]
    /\ result = <<>>
    /\ NoOrchestrator

\* one call analyze_platform_data(items, config)
CallAnalyzePlatformData ==
    /\ pc = "ready"
    /\ result' = analyze_platform_data(items)
    /\ pc' = "analyzed"
    /\ UNCHANGED <<text, config, items, orchestrator>>

NextTopicsTop == CallExtractTrendingTopics \/ CallAnalyzePlatformData

SpecTopicsTop == InitTopicsTop /\ [][NextTopicsTop]_vars

\* the tags of the items
AllTags == UNION {{items[i].tags[j] : j \in DOMAIN items[i].tags} : i \in DOMAIN items}

\* number of occurrences of tag over all items
TagCount(tag) == SumOver(OccurrencesByItem(tag), DOMAIN items)

\* topics lists the n highest-count tags of the items in descending count
TopOf(topics, n) ==
    LET listed == {topics[k].topic : k \in DOMAIN topics}
    IN  /\ Len(topics) <= n
        /\ Len(topics) = Cardinality(listed)
        /\ listed \subseteq AllTags
        /\ Len(topics) < n => listed = AllTags
        /\ \A k \in DOMAIN topics :
              /\ topics[k].count = TagCount(topics[k].topic)
              /\ topics[k].avg_engagement[1] * topics[k].count
                    = SumOver(EngagementByItem(topics[k].topic), DOMAIN items)
                          * topics[k].avg_engagement[2]
        /\ \A j, k \in DOMAIN topics : j < k => topics[j].count >= topics[k].count
        /\ \A tag \in AllTags \ listed : \A k \in DOMAIN topics :
              topics[k].count >= TagCount(tag)

\* C25: extract_trending_topics returns at most 10 topics in descending
\* count, none with a lower count than a tag it leaves out; the breakdown of
\* analyze_platform_data holds at most 5 topics, the highest-count tags of the
\* platform's items; a topic's average engagement is the engagement
\* accumulated for its tag divided by its count.
C25_TopTopics ==
    /\ pc = "done" => TopOf(result, 10)
    /\ pc = "analyzed" => TopOf(result.topics, 5)

\* eleven tags of which some occur twice: the list of ten leaves one out
C25_Witness ==
    /\ pc = "done"
    /\ Cardinality(AllTags) > 10
    /\ Len(result) = 10
    /\ result[1].count > result[10].count

\* the breakdown lists five of more than five tags, with different counts
C25_WitnessPlatform ==
    /\ pc = "analyzed"
    /\ Cardinality(AllTags) > 5
    /\ Len(result.topics) = 5
    /\ result.topics[1].count > result.topics[5].count
    /\ \E tag \in AllTags : \A k \in 1..5 : result.topics[k].topic # tag


----------------------------------------------------------------------------
(* The dominant sentiment of a topic. *)

\* rank of a label in the tie-breaking order positive, neutral, negative
LabelPriority(l) == CASE l = "positive" -> 1 [] l = "neutral" -> 2 [] l = "negative" -> 3

\* C26: the dominant sentiment of a topic is a label with the highest count
\* in the topic's histogram; among labels of equal highest count it is the
\* first of positive, neutral, negative, whatever the order of the items.
C26_DominantSentiment ==
    pc = "done" =>
        \A k \in DOMAIN result :
            LET e == result[k]
            IN  /\ e.sentiment \in Labels
                /\ \A l \in Labels :
                      /\ e.sentiment_dist[l] <= e.sentiment_dist[e.sentiment]
                      /\ e.sentiment_dist[l] = e.sentiment_dist[e.sentiment]
                            => LabelPriority(e.sentiment) <= LabelPriority(l)

\* a tag seen first in a negative item and then in a positive one: the tie
\* goes to positive
C26_Witness ==
    /\ pc = "done"
    /\ Len(items) = 2
    /\ items[1].sentiment.label = "negative"
    /\ items[2].sentiment.label = "positive"
    /\ items[1].tags = << <<"t">> >>
    /\ items[2].tags = << <<"t">> >>
    /\ result[1].sentiment = "positive"
    /\ result[1].sentiment_dist = [positive |-> 1, neutral |-> 0, negative |-> 1]


----------------------------------------------------------------------------
(* Presence-based keyword matching of classify_sentiment. *)

\* t contains exactly the keywords that the text of the call contains
SamePresence(t) == \A kw \in Keywords : Contains(kw, t) <=> Contains(kw, text)

\* a keyword of the configuration occurs at two positions of the text
OccursTwice ==
    \E kw \in Keywords : \E i, j \in 0..(Len(text) - Len(kw)) :
        /\ i < j
        /\ SubSeq(text, i + 1, i + Len(kw)) = kw
        /\ SubSeq(text, j + 1, j + Len(kw)) = kw
        /\ \E k \in DOMAIN config.positive : config.positive[k] = kw

\* C27: classify_sentiment matches keywords by presence: a configured keyword
\* adds at most one to its hit count, so the result is bounded by the length
\* of the keyword lists and a text in which a keyword occurs several times
\* gets the same label, score and confidence as any text that contains the
\* same keywords once.
C27_PresenceBased ==
    pc = "done" =>
        /\ result.label # "neutral" =>
              FracLeq(result.confidence,
                      Frac(Len(config.positive) + Len(config.negative), 5))
        /\ \A t \in Texts : SamePresence(t) => classify_sentiment(t, config) = result

\* the text repeats a positive keyword that the configuration lists once:
\* one hit, confidence 0.2
C27_Witness ==
    /\ pc = "done"
    /\ OccursTwice
    /\ Len(config.positive) = 1
    /\ config.negative = <<>>
    /\ result = [label |-> "positive", score |-> <<1, 1>>, confidence |-> <<1, 5>>]
    /\ \E t \in Texts : SamePresence(t) /\ Len(t) < Len(text)


----------------------------------------------------------------------------
(* The comment analysis of analyze_all_data. *)

\* the comments of the attached items: <<id, k>> for the k-th comment under
\* the id of a returned item
AttachedComments ==
    UNION {{<<id, k>> : k \in DOMAIN CommentsInput[id]} :
              id \in {x \in DOMAIN CommentsInput :
                         \E i \in DOMAIN result.all_items : result.all_items[i].id = x}}

\* the comment record at p after the call, and its text
CommentAt(p) == CommentsInput[p[1]][p[2]]

CommentText(p) == Get(CommentAt(p), "content", <<>>)

\* the comment at p was classified with label l
LabeledAs(p, l) ==
    "sentiment" \in DOMAIN CommentAt(p) /\ CommentAt(p).sentiment.label = l

\* the risk keywords in the text of the comment at p
CommentRiskKeywords(p) == MatchedIn(config.risk_keywords, CommentText(p))

\* the high risk entry e is the one of the comment at p
EntryOf(e, p) ==
    /\ e.parent_content_id = p[1]
    /\ e.content = CommentText(p)
    /\ e.keywords = CommentRiskKeywords(p)

\* a comment of an attached item has a high risk entry exactly when it is
\* labeled negative and has a risk keyword; every entry is one of those
C28_HighRiskExactly ==
    Returned =>
        LET entries == result.comments_analysis.high_risk_comments
        IN  /\ \A p \in AttachedComments :
                  (\E k \in DOMAIN entries : EntryOf(entries[k], p))
                      <=> (LabeledAs(p, "negative") /\ CommentRiskKeywords(p) # <<>>)
            /\ \A k \in DOMAIN entries : \E p \in AttachedComments : EntryOf(entries[k], p)

\* the three counts of the histogram sum to total_comments
C28_HistogramSum ==
    Returned =>
        LET ca == result.comments_analysis
        IN  ca.comments_sentiment["positive"] + ca.comments_sentiment["neutral"]
                + ca.comments_sentiment["negative"] = ca.total_comments

\* the histogram counts each classified comment of an attached item once
C28_CountedOnce ==
    Returned =>
        \A l \in Labels :
            result.comments_analysis.comments_sentiment[l]
                = Cardinality({p \in AttachedComments : LabeledAs(p, l)})

\* C28: the high risk comment list has an entry for a comment of an attached
\* item exactly when the comment is labeled negative and its text has a risk
\* keyword, each entry carries the parent item id and the matched keywords;
\* the global histogram counts each classified comment once and its three
\* counts sum to total_comments.
C28_CommentAnalysis == C28_HighRiskExactly /\ C28_HistogramSum /\ C28_CountedOnce

\* no two returned items have the same id
UniqueItemIds ==
    \A i, j \in DOMAIN result.all_items :
        result.all_items[i].id = result.all_items[j].id => i = j

\* with item ids that are unique, each classified comment is counted once
C28_CountedOnceUniqueIds == (Returned /\ UniqueItemIds) => C28_CountedOnce

\* a negative comment with a risk keyword under the id of one item
C28_WitnessUniqueIds ==
    /\ Returned
    /\ UniqueItemIds
    /\ Len(result.comments_analysis.high_risk_comments) = 1
    /\ result.comments_analysis.total_comments = 1

\* two items of different platforms have the id of the one comment
C28_WitnessSharedId ==
    /\ Returned
    /\ ~UniqueItemIds
    /\ Cardinality(AttachedComments) = 1
    /\ result.comments_analysis.total_comments = 2


----------------------------------------------------------------------------
(* The per-platform breakdowns of analyze_all_data. *)

\* number of items normalized from the batch supplied under the platform id
NormalizedFrom(platform) ==
    LET batches == {b \in DOMAIN local.all_data : local.all_data[b].platform = platform}
    IN  IF batches = {} THEN 0
        ELSE LET b == CHOOSE x \in batches : TRUE
             IN  Len(normalize_platform_data(local.all_data[b].raw_items, platform))

\* total_items of each breakdown
BreakdownTotals ==
    [k \in DOMAIN result.platform_analysis |->
        result.platform_analysis[k].analysis.total_items]

\* the breakdown under a platform id counts the items of that platform's batch
BreakdownCounts(k) ==
    BreakdownTotals[k] = NormalizedFrom(result.platform_analysis[k].platform)

\* C29: the per-platform breakdowns partition the item collection: the
\* breakdown under every configured platform id whose batch was supplied
\* counts exactly the items normalized from that batch, and the total_items
\* of all breakdowns sum to metrics.total_items.
C29_BreakdownsPartition ==
    Returned =>
        /\ \A k \in DOMAIN result.platform_analysis : BreakdownCounts(k)
        /\ SumOver(BreakdownTotals, DOMAIN BreakdownTotals) = result.metrics.total_items

\* the breakdown of every platform id but "douyin" counts its batch
C29_OtherPlatformsCounted ==
    Returned =>
        \A k \in DOMAIN result.platform_analysis :
            result.platform_analysis[k].platform # "douyin" => BreakdownCounts(k)

\* the breakdown under "douyin" is always empty
C29_DouyinBreakdownEmpty ==
    Returned =>
        \A k \in DOMAIN result.platform_analysis :
            result.platform_analysis[k].platform = "douyin" => BreakdownTotals[k] = 0

\* a douyin item and a wb item are returned
C29_WitnessDouyin ==
    /\ Returned
    /\ result.metrics.total_items = 2
    /\ NormalizedFrom("douyin") = 1
    /\ SumOver(BreakdownTotals, DOMAIN BreakdownTotals) = 1


----------------------------------------------------------------------------
(* The inputs of analyze_all_data. *)

\* C30: analyze_all_data leaves its inputs unchanged: no step of the call
\* changes a field or a value of the raw per-platform records or of the
\* comment records it was given.
C30_InputsUnchanged == [][args' = args]_vars

\* the raw per-platform records are never changed
C30_RawRecordsUnchanged == [][args'.all_data = args.all_data]_vars

\* the comments input changes only by comment records gaining a sentiment
C30_OnlySentimentAdded ==
    [][\/ args'.comments_data = args.comments_data
       \/ /\ ~IsNone(args.comments_data)
          /\ DOMAIN args'.comments_data[1] = DOMAIN args.comments_data[1]
          /\ \A id \in DOMAIN args.comments_data[1] :
                /\ Len(args'.comments_data[1][id]) = Len(args.comments_data[1][id])
                /\ \A k \in DOMAIN args.comments_data[1][id] :
                      Without(args'.comments_data[1][id][k], "sentiment")
                          = Without(args.comments_data[1][id][k], "sentiment")]_vars

\* after the call a comment record of the input carries a sentiment
C30_WitnessMarked ==
    /\ Returned
    /\ ~IsNone(args.comments_data)
    /\ \E id \in DOMAIN args.comments_data[1] : \E k \in DOMAIN args.comments_data[1][id] :
          "sentiment" \in DOMAIN args.comments_data[1][id][k]

====
